---- MODULE Spec2Model ----
(***************************************************************************)
(* Neon database backup to Google Drive: the discovery-backup-upload       *)
(* pipeline (NeonBackupOrchestrator, NeonDiscoveryService,                 *)
(* DatabaseBackupService, GoogleDriveService, GoogleDriveOAuthService).    *)
(*                                                                         *)
(* Time is counted in whole hours.  A Date is a record [valid, t]; the     *)
(* Invalid Date (time value NaN) is [valid |-> FALSE, t |-> 0].            *)
(* The host clock runs in UTC (the workflow runner), so Date.setDate(d-n)  *)
(* moves the instant by exactly 24*n hours.                                *)
(***************************************************************************)
EXTENDS Integers, Sequences, FiniteSets, TLC

\* ------------------------------------------------------------------ bounds
MaxProjects == 2
MaxBranches == 2
MaxRetentionDays == 2
MaxCatalogBranches == 3
MaxArtifacts == 3
MaxExitCode == 2
MaxResolves == 2
MaxSweepFiles == 2

\* -------------------------------------------------------- program constants
DefaultRetentionDays == 7
FixedLookbackHours == 23
HoursPerDay == 24
FolderName == "neonbackups"

VARIABLES
    variant,          \* which build of neon-discovery is deployed: "days" | "hours23"
    env,              \* the process environment read by getInput
    config,           \* BackupConfiguration built by main
    pc,               \* position of the single thread of control
    exitCode,         \* process exit code: -1 while running, else 0 or 1
    error,            \* message of the Error in flight / that ended the run ("" = none)
    stageLog,         \* start/end events of the stages of runBackupProcess, in order
    invoked,          \* operations of backupService / driveService invoked so far
    pgDumpAvailable,  \* testConnections: const pgDumpAvailable ("" before the probe)
    projects,         \* discoverActiveResources: number of projects listProjects returned
    pIdx,             \* discoverActiveResources: index of the project being processed
    branches,         \* discoverActiveResources: const branches (updated_at of each)
    bIdx,             \* discoverActiveResources: index of the branch being processed
    listing,          \* per processed project: -1 (discoverBranches threw) or branch count
    branchLog,        \* per processed branch: [id, active, calls] (calls: URI call outcomes)
    activeResources,  \* discoverActiveResources: const activeResources
    dirReady,         \* the staging directory exists (initialize succeeded)
    rIdx,             \* createMultipleBackups: position of the loop over resources
    backupResults,    \* createMultipleBackups: const results / parameter of the upload
    inflight,         \* createBackup / uploadBackup calls awaited and not yet settled
    staging,          \* the files this run has written to outputDir and not removed
    backupFolderId,   \* GoogleDrive*Service.backupFolderId ("" = unset)
    uploader,         \* uploader variant: "sa" (GoogleDriveService) | "oauth"
    uIdx,             \* uploadMultipleBackups: position of the loop over successfulBackups
    uploadAttempts,   \* artifacts handed to uploadBackup, in order, with the outcome
    uploadResults,    \* GoogleDriveService.uploadMultipleBackups: const uploadResults
    successful,       \* GoogleDriveOAuthService.uploadMultipleBackups: let successful
    failed,           \* GoogleDriveOAuthService.uploadMultipleBackups: let failed
    drive,            \* the remote store as this run's uploader has used it:
                      \*   [initialized, files, listed]
    act,              \* checkBranchActivity call: [days, updated_at, result]
    cb,               \* createBackup call: [build, resource, o, result, files]
    remote,           \* Drive folder resolution: [parentFolderId, before, folders, returned]
    sweep,            \* cleanupOldBackups call: [kind, days, files, old, idx, attempted,
                      \*   deleted, listed, pageSize, started, nextPageToken, failed,
                      \*   ended]
    named,            \* generateBackupFileName calls: [projectName, branchName,
                      \*   customFormat, now, fileName], in call order
    conn              \* getBranchConnectionUri call: [roles, databases, databaseName,
                      \*   o, requested, ended, error]

vars == << variant, env, config, pc, exitCode, error, stageLog, invoked, pgDumpAvailable,
           projects, pIdx, branches, bIdx, listing, branchLog, activeResources,
           dirReady, rIdx, backupResults, inflight, staging, backupFolderId, uploader,
           uIdx,
           uploadAttempts, uploadResults, successful, failed, drive, act, cb, remote,
           sweep, named, conn >>

discoveryVars == << projects, pIdx, branches, bIdx, listing, branchLog, activeResources >>

backupVars == << dirReady, rIdx, backupResults, inflight, staging >>

uploadVars == << backupFolderId, uIdx, uploadAttempts, uploadResults, successful, failed,
                 drive >>

runVars == << stageLog, invoked >>

\* the variables of the single-operation specifications
unitVars == << cb, remote, sweep, named, conn >>

\* --------------------------------------------------------------- Date model
InvalidDate == [valid |-> FALSE, t |-> 0]

DateAt(h) == [valid |-> TRUE, t |-> h]

\* the clock reading of `new Date()`
Now == HoursPerDay * (MaxRetentionDays + DefaultRetentionDays + 2)

\* a >= b on two Date objects: both are converted to their time values and
\* every comparison with NaN is false
DateGE(a, b) == a.valid /\ b.valid /\ a.t >= b.t

\* variant of DateLT that also accepts equal instants
DateLE(a, b) == a.valid /\ b.valid /\ a.t <= b.t

\* a < b on two Date objects (stats.mtime < cutoffDate, createdDate <
\* cutoffDate) and on two instants compared by the Drive query createdTime < '...'
DateLT(a, b) == a.valid /\ b.valid /\ a.t < b.t

\* a catalog timestamp string: an ISO-8601 instant, or text that is no date
Iso(h) == [iso |-> TRUE, t |-> h]

Unparseable == [iso |-> FALSE, t |-> 0]

\* new Date(string): never throws; text that is no date gives the Invalid Date
ParseDate(s) == IF s.iso THEN DateAt(s.t) ELSE InvalidDate

\* parseInt results: a whole number, or NaN
NaNDays == [nan |-> TRUE, n |-> 0]

Days(n) == [nan |-> FALSE, n |-> n]

\* parseInt on the strings the model feeds it
ParseInt(s) ==
    CASE s = "30" -> Days(30)
      [] s = "7" -> Days(7)
      [] s = "2" -> Days(2)
      [] s = "1" -> Days(1)
      [] OTHER -> NaNDays

\* variant of SetDateBack that moves the date back by hours instead of days
SetDateBackByHours(d, days) ==
    IF days.nan THEN InvalidDate ELSE DateAt(d.t - days.n)

\* cutoffDate.setDate(cutoffDate.getDate() - retentionDays); NaN gives Invalid Date
SetDateBack(d, days) ==
    IF days.nan THEN InvalidDate ELSE DateAt(d.t - HoursPerDay * days.n)

\* cutoffDate.setHours(cutoffDate.getHours() - 23)
SetHoursBack(d, hours) == DateAt(d.t - hours)

\* checkBranchActivity, configurable-days build.  Nothing inside the try block
\* throws (Date construction and comparison never do), so the catch block that
\* returns true is never entered.
checkBranchActivityDays(retentionDays, updated_at) ==
    LET cutoffDate == SetDateBack(DateAt(Now), retentionDays)
        branchUpdatedAt == ParseDate(updated_at)
    IN  DateGE(branchUpdatedAt, cutoffDate)

\* checkBranchActivity, fixed-23-hours build: this.retentionDays is not read
checkBranchActivityHours(retentionDays, updated_at) ==
    LET cutoffDate == SetHoursBack(DateAt(Now), FixedLookbackHours)
        branchUpdatedAt == ParseDate(updated_at)
    IN  DateGE(branchUpdatedAt, cutoffDate)

checkBranchActivity(v, retentionDays, updated_at) ==
    IF v = "days" THEN checkBranchActivityDays(retentionDays, updated_at)
    ELSE checkBranchActivityHours(retentionDays, updated_at)

\* ------------------------------------------------------------ environment
\* The values a variable of the process environment takes here: unset (""),
\* or one representative text per way the code treats it.
Envs ==
    [ NEON_API_KEY : {"", "key"},
      GOOGLE_DRIVE_CREDENTIALS : {"", "not json", "sa json"},
      GOOGLE_CLIENT_ID : {"", "id"},
      GOOGLE_CLIENT_SECRET : {"", "secret"},
      GOOGLE_REFRESH_TOKEN : {"", "token"},
      BACKUP_RETENTION_DAYS : {"", "1"},
      CLEANUP_OLD_BACKUPS : {"", "true", "false"},
      CLEANUP_RETENTION_DAYS : {"", "1"} ]

\* the environments of the pipeline runs explored: no OAuth variables, default window
RunEnvs ==
    { e \in Envs : /\ e.GOOGLE_CLIENT_ID = ""
                   /\ e.GOOGLE_CLIENT_SECRET = ""
                   /\ e.GOOGLE_REFRESH_TOKEN = ""
                   /\ e.BACKUP_RETENTION_DAYS = ""
                   /\ e.CLEANUP_RETENTION_DAYS = "" }

\* the environment of a service-account deployment that sets nothing optional
DefaultEnv ==
    [ NEON_API_KEY |-> "key", GOOGLE_DRIVE_CREDENTIALS |-> "sa json",
      GOOGLE_CLIENT_ID |-> "", GOOGLE_CLIENT_SECRET |-> "", GOOGLE_REFRESH_TOKEN |-> "",
      BACKUP_RETENTION_DAYS |-> "", CLEANUP_OLD_BACKUPS |-> "",
      CLEANUP_RETENTION_DAYS |-> "" ]

NoConfig ==
    [ neonApiKey |-> "", googleDriveCredentials |-> "",
      retentionDays |-> NaNDays, cleanupOldBackups |-> FALSE,
      cleanupRetentionDays |-> NaNDays ]

\* getInput(name, required): the value, or "" ; a required input that is
\* empty makes getInput throw
getInput(e, name) == e[name]

\* a || b on strings
OrElse(a, b) == IF a = "" THEN b ELSE a

\* the first required input that is missing, "" when none is
MissingInput(e) ==
    IF getInput(e, "NEON_API_KEY") = "" THEN "NEON_API_KEY"
    ELSE IF getInput(e, "GOOGLE_DRIVE_CREDENTIALS") = "" THEN "GOOGLE_DRIVE_CREDENTIALS"
    ELSE ""

BuildConfig(e) ==
    [ neonApiKey |-> getInput(e, "NEON_API_KEY"),
      googleDriveCredentials |-> getInput(e, "GOOGLE_DRIVE_CREDENTIALS"),
      retentionDays |-> ParseInt(OrElse(getInput(e, "BACKUP_RETENTION_DAYS"), "7")),
      cleanupOldBackups |-> (getInput(e, "CLEANUP_OLD_BACKUPS") = "true"),
      cleanupRetentionDays |->
          ParseInt(OrElse(getInput(e, "CLEANUP_RETENTION_DAYS"), "30")) ]

\* JSON.parse(config.credentials) in the GoogleDriveService constructor
JsonParses(text) == text = "sa json"

\* ------------------------------------------------------------ idle values
IdleDiscovery ==
    /\ projects = 0
    /\ pIdx = 0
    /\ branches = << >>
    /\ bIdx = 0
    /\ listing = << >>
    /\ branchLog = << >>
    /\ activeResources = << >>

IdleBackup ==
    /\ dirReady = FALSE
    /\ rIdx = 0
    /\ backupResults = << >>
    /\ inflight = {}
    /\ staging = {}

\* no initialize() call of this run yet, no file created, no files.list issued
IdleDrive == [initialized |-> << >>, files |-> {}, listed |-> ""]

IdleUpload ==
    /\ uIdx = 0
    /\ uploadAttempts = << >>
    /\ uploadResults = << >>
    /\ successful = 0
    /\ failed = 0
    /\ drive = IdleDrive

IdleRun ==
    /\ config = NoConfig
    /\ exitCode = -1
    /\ error = ""
    /\ stageLog = << >>
    /\ invoked = {}
    /\ pgDumpAvailable = ""

IdleActivity == act = [days |-> NaNDays, updated_at |-> Unparseable, result |-> "none"]

IdleCreateBackup == cb = [build |-> "zip", resource |-> << >>, o |-> << >>,
                         processEnv |-> << >>, result |-> << >>, files |-> {},
                         spawned |-> << >>, compressed |-> FALSE]

IdleRemote == remote = [parentFolderId |-> "", before |-> {}, folders |-> {},
                        returned |-> << >>]

IdleSweep == sweep = [kind |-> "local", days |-> NaNDays, files |-> << >>, old |-> << >>,
                      idx |-> 0, attempted |-> << >>, deleted |-> {}, listed |-> FALSE,
                      pageSize |-> 0, started |-> 0, nextPageToken |-> FALSE,
                      failed |-> FALSE, ended |-> ""]

IdleNaming == named = << >>

IdleConn == conn = [roles |-> << >>, databases |-> << >>, databaseName |-> "",
                    o |-> << >>, requested |-> << >>, ended |-> "", error |-> ""]

IdleUnits == IdleCreateBackup /\ IdleRemote /\ IdleSweep /\ IdleNaming /\ IdleConn

\* ---------------------------------------------------------------- helpers
\* an Error thrown out of a service operation, on its way to the caller
Throw(msg) ==
    /\ error' = msg
    /\ pc' = "threw"

Stage(ev) == stageLog' = Append(stageLog, ev)

Invoke(op) == invoked' = invoked \cup {op}

\* ------------------------------------------------------------------- main
\* main, lines 165-183: read the inputs, validate
MainGetConfig ==
    /\ pc = "main"
    /\ IF MissingInput(env) # ""
       THEN /\ error' = "Required input is not provided"
            /\ pc' = "main_catch"
            /\ UNCHANGED config
       ELSE /\ config' = BuildConfig(env)
            /\ pc' = "construct"
            /\ UNCHANGED error
    /\ UNCHANGED << variant, env, pgDumpAvailable, exitCode, runVars, discoveryVars, backupVars,
                    uploadVars, uploader, act, unitVars >>

\* new NeonBackupOrchestrator(config): the three services are constructed;
\* the GoogleDriveService constructor parses the credentials JSON
Construct ==
    /\ pc = "construct"
    /\ IF JsonParses(config.googleDriveCredentials)
       THEN /\ pc' = "run"
            /\ UNCHANGED error
       ELSE /\ error' = "SyntaxError"
            /\ pc' = "main_catch"
    /\ UNCHANGED << variant, env, pgDumpAvailable, config, exitCode, runVars, discoveryVars,
                    backupVars, uploadVars, uploader, act, unitVars >>

\* variant of MainCatch that reports the error and lets the process end by itself
MainCatchNoExit ==
    /\ pc = "main_catch"
    /\ exitCode' = 0
    /\ pc' = "exited"
    /\ UNCHANGED << variant, env, pgDumpAvailable, config, error, runVars, discoveryVars,
                    backupVars, uploadVars, uploader, act, unitVars >>

\* main's catch block: report, process.exit(1)
MainCatch ==
    /\ pc = "main_catch"
    /\ exitCode' = 1
    /\ pc' = "exited"
    /\ UNCHANGED << variant, env, pgDumpAvailable, config, error, runVars, discoveryVars,
                    backupVars, uploadVars, uploader, act, unitVars >>

\* runBackupProcess resolved, main returns: the process ends with code 0
MainReturn ==
    /\ pc = "returned"
    /\ exitCode' = 0
    /\ pc' = "exited"
    /\ UNCHANGED << variant, env, pgDumpAvailable, config, error, runVars, discoveryVars,
                    backupVars, uploadVars, uploader, act, unitVars >>

\* ------------------------------------------------------ runBackupProcess
\* variant of ProbeThrows in which a missing pg_dump fails the connection test
ProbeThrowsWhenMissing(available) == available = "false"

\* testConnections: if (!pgDumpAvailable) only logs a warning
ProbeThrows(available) == FALSE

\* Steps 1 and 2 up to the call of discoverActiveResources.  testConnections:
\* driveService.testConnection() answers true or false (it catches its own
\* errors) and a false answer throws; the pg_dump probe follows, and its
\* answer only changes a log line.
TestConnections ==
    /\ pc = "run"
    /\ \E driveOk \in BOOLEAN :
          IF driveOk
          THEN \E available \in {"true", "false"} :
                  /\ pgDumpAvailable' = available
                  /\ invoked' = invoked \cup {"drive.testConnection",
                                               "backup.checkPgDumpAvailability"}
                  /\ IF ProbeThrows(available)
                     THEN /\ Stage("verify:start")
                          /\ Throw("pg_dump not found")
                     ELSE /\ stageLog' = stageLog \o << "verify:start", "verify:end",
                                                        "discover:start" >>
                          /\ pc' = "discover_call"
                          /\ UNCHANGED error
          ELSE /\ Invoke("drive.testConnection")
               /\ Stage("verify:start")
               /\ Throw("Google Drive connection test failed")
               /\ UNCHANGED pgDumpAvailable
    /\ UNCHANGED << variant, env, config, exitCode, discoveryVars, backupVars,
                    uploadVars, uploader, act, unitVars >>

\* variant of RunCatch whose catch block logs the error and returns normally
RunCatchSwallow ==
    /\ pc = "threw"
    /\ pc' = "returned"
    /\ UNCHANGED << variant, env, pgDumpAvailable, config, exitCode, error, runVars, discoveryVars,
                    backupVars, uploadVars, uploader, act, unitVars >>

\* the catch block of runBackupProcess: log and rethrow to main
RunCatch ==
    /\ pc = "threw"
    /\ pc' = "main_catch"
    /\ UNCHANGED << variant, env, pgDumpAvailable, config, exitCode, error, runVars, discoveryVars,
                    backupVars, uploadVars, uploader, act, unitVars >>

\* ------------------------------------------------ NeonDiscoveryService
\* what the catalog answers to one call
CallOutcomes == {"ok", "error"}

\* updated_at values of the branches the catalog lists: one hour old, two
\* days old, older than any window used, and text that is no date
BranchTimestamps ==
    { Iso(Now - 1), Iso(Now - 2 * HoursPerDay),
      Iso(Now - HoursPerDay * (DefaultRetentionDays + 1)), Unparseable }

\* the sequences over S of length n
SeqsOfLen(S, n) == [1..n -> S]

\* the sequences over S of length at most n
SeqsUpTo(S, n) == UNION { SeqsOfLen(S, k) : k \in 0..n }

Min(a, b) == IF a <= b THEN a ELSE b

Resource(p, b, uri) == [project |-> p, branch |-> b, connection_uri |-> uri]

\* discoverActiveResources, line "const projects = await this.discoverProjects()":
\* a catalog error is rethrown by discoverProjects and by discoverActiveResources
DiscoverProjects ==
    /\ pc = "discover_call"
    /\ \E o \in CallOutcomes :
          IF o = "ok"
          THEN /\ \E n \in 0..MaxProjects : projects' = n
               /\ pIdx' = 1
               /\ pc' = "project_loop"
               /\ UNCHANGED error
          ELSE /\ Throw("listProjects failed")
               /\ UNCHANGED << projects, pIdx >>
    /\ UNCHANGED << variant, env, pgDumpAvailable, config, exitCode, runVars, branches, bIdx, listing,
                    branchLog, activeResources, backupVars, uploadVars, uploader, act, unitVars >>

\* variant of DiscoverBranches without the project's try block: the error of
\* discoverBranches leaves the loop
DiscoverBranchesAbortOnError ==
    /\ pc = "project_loop"
    /\ pIdx <= projects
    /\ \E o \in CallOutcomes :
          IF o = "ok"
          THEN \E bs \in SeqsUpTo(BranchTimestamps,
                                  Min(MaxBranches, MaxCatalogBranches - Len(branchLog))) :
                  /\ listing' = Append(listing, Len(bs))
                  /\ IF Len(bs) = 0
                     THEN /\ pIdx' = pIdx + 1
                          /\ UNCHANGED << branches, bIdx, pc >>
                     ELSE /\ branches' = bs
                          /\ bIdx' = 1
                          /\ pc' = "branch_loop"
                          /\ UNCHANGED pIdx
                  /\ UNCHANGED error
          ELSE /\ Throw("listProjectBranches failed")
               /\ UNCHANGED << listing, pIdx, branches, bIdx >>
    /\ UNCHANGED << variant, env, pgDumpAvailable, config, exitCode, runVars, projects,
                    branchLog, activeResources, backupVars, uploadVars, uploader, act, unitVars >>

\* the project-loop body up to the branch loop: discoverBranches(project.id);
\* its error is caught by the project's try block, which continues the loop
DiscoverBranches ==
    /\ pc = "project_loop"
    /\ pIdx <= projects
    /\ \E o \in CallOutcomes :
          IF o = "ok"
          THEN \E bs \in SeqsUpTo(BranchTimestamps,
                                  Min(MaxBranches, MaxCatalogBranches - Len(branchLog))) :
                  /\ listing' = Append(listing, Len(bs))
                  /\ IF Len(bs) = 0
                     THEN /\ pIdx' = pIdx + 1
                          /\ UNCHANGED << branches, bIdx, pc >>
                     ELSE /\ branches' = bs
                          /\ bIdx' = 1
                          /\ pc' = "branch_loop"
                          /\ UNCHANGED pIdx
          ELSE /\ listing' = Append(listing, -1)
               /\ pIdx' = pIdx + 1
               /\ UNCHANGED << branches, bIdx, pc >>
    /\ UNCHANGED << variant, env, pgDumpAvailable, config, exitCode, error, runVars, projects,
                    branchLog, activeResources, backupVars, uploadVars, uploader, act, unitVars >>

\* variant of BranchPass without the activity filter: the connection URI of
\* every branch is resolved
BranchPassNoFilter(p, b, updated_at, o1, o2) ==
    LET calls == IF o1 = "ok" THEN << o1 >> ELSE << o1, o2 >>
        pushed == calls[Len(calls)] = "ok"
    IN  [ log |-> [id |-> << p, b >>,
                   active |-> checkBranchActivity(variant, config.retentionDays, updated_at),
                   calls |-> calls],
          resources |-> IF pushed THEN << Resource(p, b, "uri") >> ELSE << >> ]

\* what one pass of the branch-loop body leaves in activeResources and in the
\* log, given the outcomes o1 and o2 of the first and the second call of
\* getBranchConnectionUri.  The second call is the one in the catch block of
\* the branch's try block, entered when the first call throws.
BranchPass(p, b, updated_at, o1, o2) ==
    LET hasRecentActivity == checkBranchActivity(variant, config.retentionDays, updated_at)
        calls == IF ~hasRecentActivity THEN << >>
                 ELSE IF o1 = "ok" THEN << o1 >>
                 ELSE << o1, o2 >>
        pushed == calls # << >> /\ calls[Len(calls)] = "ok"
    IN  [ log |-> [id |-> << p, b >>, active |-> hasRecentActivity, calls |-> calls],
          resources |-> IF pushed THEN << Resource(p, b, "uri") >> ELSE << >> ]

\* one pass of the branch loop, and the loop bookkeeping after it
DiscoverBranchStep ==
    /\ pc = "branch_loop"
    /\ \E o1 \in CallOutcomes, o2 \in CallOutcomes :
          LET pass == BranchPass(pIdx, bIdx, branches[bIdx], o1, o2)
          IN  /\ branchLog' = Append(branchLog, pass.log)
              /\ activeResources' = activeResources \o pass.resources
    /\ IF bIdx < Len(branches)
       THEN /\ bIdx' = bIdx + 1
            /\ UNCHANGED << pIdx, branches, pc >>
       ELSE /\ bIdx' = 0
            /\ branches' = << >>
            /\ pIdx' = pIdx + 1
            /\ pc' = "project_loop"
    /\ UNCHANGED << variant, env, pgDumpAvailable, config, exitCode, error, runVars, projects, listing,
                    backupVars, uploadVars, uploader, act, unitVars >>

\* the project loop is over: return activeResources
DiscoverReturn ==
    /\ pc = "project_loop"
    /\ pIdx > projects
    /\ pc' = "discovered"
    /\ UNCHANGED << variant, env, pgDumpAvailable, config, exitCode, error, runVars, discoveryVars,
                    backupVars, uploadVars, uploader, act, unitVars >>

\* variant of AfterDiscover without the early return on an empty result
AfterDiscoverNoEmptyCheck ==
    /\ pc = "discovered"
    /\ projects' = 0
    /\ pIdx' = 0
    /\ listing' = << >>
    /\ branchLog' = << >>
    /\ stageLog' = stageLog \o << "discover:end", "backup:start" >>
    /\ Invoke("backup.createMultipleBackups")
    /\ pc' = "backup_call"
    /\ UNCHANGED << variant, env, pgDumpAvailable, config, exitCode, error, branches, bIdx,
                    activeResources, backupVars, uploadVars, uploader, act, unitVars >>

\* runBackupProcess after discovery: return when nothing was found, else
\* step 3 begins.  The locals of discoverActiveResources are gone.
AfterDiscover ==
    /\ pc = "discovered"
    /\ projects' = 0
    /\ pIdx' = 0
    /\ listing' = << >>
    /\ branchLog' = << >>
    /\ IF Len(activeResources) = 0
       THEN /\ Stage("discover:end")
            /\ pc' = "returned"
            /\ UNCHANGED invoked
       ELSE /\ stageLog' = stageLog \o << "discover:end", "backup:start" >>
            /\ Invoke("backup.createMultipleBackups")
            /\ pc' = "backup_call"
    /\ UNCHANGED << variant, env, pgDumpAvailable, config, exitCode, error, branches, bIdx,
                    activeResources, backupVars, uploadVars, uploader, act, unitVars >>

\* ------------------------------------------------ DatabaseBackupService
\* what the host answers during one createBackup call
\*   spawn:   "exit" (pg_dump ran and closed with code), "ENOENT" (no pg_dump
\*            executable), "EACCES" (any other spawn error)
\*   code:    exit code of pg_dump
\*   stderr:  what pg_dump wrote to its standard error
\*   sqlStat: the dump file exists when createBackup stats it
\*   zip:     the archiver finishes without an error
\*   zipStat: the ZIP file exists when createBackup stats it
AllBackupOutcomes ==
    [ spawn : {"exit", "ENOENT", "EACCES"}, code : 0..MaxExitCode,
      stderr : {"", "connection refused"},
      sqlStat : BOOLEAN, zip : BOOLEAN, zipStat : BOOLEAN ]

OutcomeOk ==
    [ spawn |-> "exit", code |-> 0, stderr |-> "",
      sqlStat |-> TRUE, zip |-> TRUE, zipStat |-> TRUE ]

OutcomeDumpFailed ==
    [ spawn |-> "exit", code |-> 1, stderr |-> "connection refused",
      sqlStat |-> FALSE, zip |-> TRUE, zipStat |-> TRUE ]

OutcomeException ==
    [ spawn |-> "exit", code |-> 0, stderr |-> "",
      sqlStat |-> FALSE, zip |-> TRUE, zipStat |-> TRUE ]

\* how one createBackup call of a pipeline run ends: the dump and its
\* post-processing succeed, pg_dump fails (executePgDump resolves success:
\* false), or a step inside createBackup's try block throws
CreateBackupOutcomes == { OutcomeOk, OutcomeDumpFailed, OutcomeException }

\* parse(resource.connection_uri) of pg-connection-string, on the URIs the
\* model feeds it; a part the URI does not hold is absent ("")
parse(uri) ==
    CASE uri = "uri" ->
            [ host |-> "ep.neon.tech", port |-> "", database |-> "neondb",
              user |-> "owner", password |-> "secret" ]
      [] uri = "uri with port, no password" ->
            [ host |-> "ep.neon.tech", port |-> "6543", database |-> "neondb",
              user |-> "owner", password |-> "" ]
      [] OTHER ->
            [ host |-> "", port |-> "", database |-> "", user |-> "", password |-> "" ]

\* !(!config.host || !config.database || !config.user)
UriParses(uri) ==
    LET parsed == parse(uri)
    IN  parsed.host # "" /\ parsed.database # "" /\ parsed.user # ""

\* the createBackup implementations and options modelled:
\*   "zip"       backup-service.ts with the options the orchestrator uses
\*               (the constructor's defaults: customFormat false)
\*   "zipCustom" backup-service.ts called with options.customFormat = true
\*   "custom"    the copy in index.ts with its defaults (customFormat true)
Builds == {"zip", "zipCustom", "custom"}

\* mergedOptions.customFormat
CustomFormat(build) == build \in {"zipCustom", "custom"}

\* the implementation calls compressToZip after a successful dump
Compresses(build) == build \in {"zip", "zipCustom"}

\* message of the Error fs.stat rejects with
StatError == "ENOENT: no such file or directory, stat"

\* message of the Error compressToZip rejects with
ZipError == "archive error"

\* generateBackupFileName joined to outputDir, without the extension
BaseName(resource) ==
    "p" \o ToString(resource.project) \o "_b" \o ToString(resource.branch)

\* the file pg_dump is told to write: .dump (custom format) or .sql (plain)
DumpPath(build, resource) ==
    BaseName(resource) \o (IF CustomFormat(build) THEN ".dump" ELSE ".sql")

\* compressToZip: sqlFilePath.replace(/\.sql$/, '.zip')
ZipPath(build, resource) ==
    IF CustomFormat(build) THEN DumpPath(build, resource)
    ELSE BaseName(resource) \o ".zip"

\* variant of executePgDump that resolves success whenever pg_dump closes
executePgDumpIgnoreCode(o) ==
    IF o.spawn = "exit" THEN [success |-> TRUE, error |-> ""]
    ELSE IF o.spawn = "ENOENT"
    THEN [success |-> FALSE, error |-> "pg_dump not found"]
    ELSE [success |-> FALSE, error |-> "Failed to start pg_dump: " \o o.spawn]

\* executePgDump: resolves { success, error }, never rejects
executePgDump(o) ==
    IF o.spawn = "exit"
    THEN IF o.code = 0
         THEN [success |-> TRUE, error |-> ""]
         ELSE [success |-> FALSE,
               error |-> "pg_dump exited with code " \o ToString(o.code)
                             \o ". stderr: " \o o.stderr]
    ELSE IF o.spawn = "ENOENT"
    THEN [success |-> FALSE, error |-> "pg_dump not found"]
    ELSE [success |-> FALSE, error |-> "Failed to start pg_dump: " \o o.spawn]

\* a failure BackupResult; dumps counts the pg_dump subprocesses the call started
FailureResult(resource, msg, dumps) ==
    [ success |-> FALSE, res |-> << resource.project, resource.branch >>,
      filePath |-> "", error |-> msg, dumps |-> dumps ]

SuccessResult(resource, path) ==
    [ success |-> TRUE, res |-> << resource.project, resource.branch >>,
      filePath |-> path, error |-> "", dumps |-> 1 ]

\* variant of createBackupOf without the connection_uri guard and the check of
\* the parsed fields: pg_dump is started for every resource
createBackupUnguarded(build, resource, o) ==
    LET result == executePgDump(o)
    IN  IF ~result.success THEN FailureResult(resource, result.error, 1)
        ELSE IF ~o.sqlStat THEN FailureResult(resource, StatError, 1)
        ELSE IF ~Compresses(build)
        THEN SuccessResult(resource, DumpPath(build, resource))
        ELSE IF ~o.zip THEN FailureResult(resource, ZipError, 1)
        ELSE IF ~o.zipStat THEN FailureResult(resource, StatError, 1)
        ELSE SuccessResult(resource, ZipPath(build, resource))

\* variant of createBackupOf that does not stat the files it reports
createBackupNoStat(build, resource, o) ==
    IF resource.connection_uri = ""
    THEN FailureResult(resource, "No connection URI provided", 0)
    ELSE IF ~UriParses(resource.connection_uri)
    THEN FailureResult(resource, "Invalid connection URI - missing required fields", 0)
    ELSE LET result == executePgDump(o)
         IN  IF ~result.success THEN FailureResult(resource, result.error, 1)
             ELSE IF ~Compresses(build)
             THEN SuccessResult(resource, DumpPath(build, resource))
             ELSE IF ~o.zip THEN FailureResult(resource, ZipError, 1)
             ELSE SuccessResult(resource, ZipPath(build, resource))

\* createBackup of either build ("zip": backup-service.ts, "custom": the
\* custom-format service).  It always returns a BackupResult: its own
\* try/catch turns every exception into a failure result.
createBackupOf(build, resource, o) ==
    IF resource.connection_uri = ""
    THEN FailureResult(resource, "No connection URI provided", 0)
    ELSE IF ~UriParses(resource.connection_uri)
    THEN FailureResult(resource, "Invalid connection URI - missing required fields", 0)
    ELSE LET result == executePgDump(o)
         IN  IF ~result.success THEN FailureResult(resource, result.error, 1)
             ELSE IF ~o.sqlStat THEN FailureResult(resource, StatError, 1)
             ELSE IF ~Compresses(build)
             THEN SuccessResult(resource, DumpPath(build, resource))
             ELSE IF ~o.zip THEN FailureResult(resource, ZipError, 1)
             ELSE IF ~o.zipStat THEN FailureResult(resource, StatError, 1)
             ELSE SuccessResult(resource, ZipPath(build, resource))

\* the files of the staging directory that exist when the call returns
stagedFiles(build, resource, o) ==
    LET dumped == /\ resource.connection_uri # ""
                  /\ UriParses(resource.connection_uri)
                  /\ o.spawn = "exit"
        zipped == dumped /\ o.code = 0 /\ o.sqlStat /\ Compresses(build)
    IN  (IF dumped /\ o.sqlStat THEN { DumpPath(build, resource) } ELSE {})
            \cup (IF zipped /\ o.zipStat THEN { ZipPath(build, resource) } ELSE {})

\* compressToZip was called
compressCalled(build, resource, o) ==
    /\ resource.connection_uri # ""
    /\ UriParses(resource.connection_uri)
    /\ executePgDump(o).success
    /\ o.sqlStat
    /\ Compresses(build)

\* an element of args: `--flag=value`, or `--flag` (value "")
Arg(flag, value) == [flag |-> flag, value |-> value]

\* config.port || 5432
PortOrDefault(port) == IF port = "" THEN "5432" ELSE port

\* const args, with the default includeBlobs, includePrivileges and
\* compressionLevel of the constructor
PgDumpArgs(build, resource) ==
    LET parsed == parse(resource.connection_uri)
    IN  << Arg("--host", parsed.host),
           Arg("--port", PortOrDefault(parsed.port)),
           Arg("--username", parsed.user),
           Arg("--dbname", parsed.database) >>
        \o (IF CustomFormat(build)
            THEN << Arg("--format", "custom"), Arg("--compress", "6") >>
            ELSE IF build = "zip"
            THEN << Arg("--format", "plain"), Arg("--column-inserts", "") >>
            ELSE << Arg("--format", "plain") >>)
        \o << Arg("--blobs", ""), Arg("--no-privileges", ""), Arg("--verbose", ""),
               Arg("--no-password", ""), Arg("--file", DumpPath(build, resource)) >>

\* { ...a, ...b }: the keys of b win
Spread(a, b) ==
    [ k \in DOMAIN a \cup DOMAIN b |-> IF k \in DOMAIN b THEN b[k] ELSE a[k] ]

\* variant of PgDumpEnv in which the variables of process.env win
PgDumpEnvProcessWins(processEnv, resource) ==
    LET parsed == parse(resource.connection_uri)
    IN  Spread([PGPASSWORD |-> parsed.password, PGSSLMODE |-> "require"], processEnv)

\* const env = { ...process.env, PGPASSWORD: config.password || '', PGSSLMODE: 'require' }
PgDumpEnv(processEnv, resource) ==
    LET parsed == parse(resource.connection_uri)
    IN  Spread(processEnv, [PGPASSWORD |-> parsed.password, PGSSLMODE |-> "require"])

\* what executePgDump(args, env) hands to spawn; << >> when createBackup
\* returns or throws before that call
spawnedWith(build, resource, processEnv) ==
    IF resource.connection_uri # "" /\ UriParses(resource.connection_uri)
    THEN [ args |-> PgDumpArgs(build, resource), env |-> PgDumpEnv(processEnv, resource) ]
    ELSE << >>

\* createBackup of the service the orchestrator constructs (backup-service.ts)
createBackup(resource, o) == createBackupOf("zip", resource, o)

\* variant of PushResult that keeps only the successful results
PushResultOnlySuccess(results, result) ==
    IF result.success THEN Append(results, result) ELSE results

\* variant of PushResult that puts the newest result first
PushResultUnshift(results, result) == << result >> \o results

\* results.push(result)
PushResult(results, result) == Append(results, result)

\* createMultipleBackups up to its loop: await this.initialize() creates the
\* staging directory; initialize rethrows a mkdir error, outside any try block
\* of createMultipleBackups
CreateMultipleBackupsBegin ==
    /\ pc = "backup_call"
    /\ backupResults' = << >>
    /\ \E o \in CallOutcomes :
          IF o = "ok"
          THEN /\ dirReady' = TRUE
               /\ rIdx' = 1
               /\ pc' = "backup_loop"
               /\ UNCHANGED error
          ELSE /\ Throw("mkdir failed")
               /\ UNCHANGED << dirReady, rIdx >>
    /\ UNCHANGED << variant, env, pgDumpAvailable, config, exitCode, runVars, discoveryVars, inflight,
                    staging, uploadVars, uploader, act, unitVars >>

\* the call a loop pass awaits: which operation, for which position
Call(op, i) == << op, i >>

\* variant of CreateBackupStart that does not await the call: the loop goes on
\* to the next resource while the backup is running
CreateBackupStartNoAwait ==
    /\ pc = "backup_loop"
    /\ rIdx <= Len(activeResources)
    /\ inflight' = inflight \cup { Call("createBackup", rIdx) }
    /\ rIdx' = rIdx + 1
    /\ backupResults' = PushResult(backupResults, createBackup(activeResources[rIdx], OutcomeOk))
    /\ UNCHANGED << variant, env, pgDumpAvailable, config, pc, exitCode, error, runVars, discoveryVars,
                    dirReady, staging, uploadVars, uploader, act, unitVars >>

\* a pass of the loop over resources begins: createBackup(resource) is called
\* and awaited
CreateBackupStart ==
    /\ pc = "backup_loop"
    /\ rIdx <= Len(activeResources)
    /\ inflight' = inflight \cup { Call("createBackup", rIdx) }
    /\ pc' = "backup_wait"
    /\ UNCHANGED << variant, env, pgDumpAvailable, config, exitCode, error, runVars, discoveryVars,
                    dirReady, rIdx, backupResults, staging, uploadVars, uploader, act,
                    unitVars >>

\* variant of NextResource that leaves the loop at the first failed result
NextResourceStopOnFailure(i, n, result) == IF result.success THEN i + 1 ELSE n + 1

\* for (const resource of resources): the pass that follows pass i, whatever
\* its result was
NextResource(i, n, result) == i + 1

\* the awaited createBackup settles: it never throws, so the result is pushed
\* by the try block, and the loop goes on to the next resource
CreateBackupSettle ==
    /\ pc = "backup_wait"
    /\ \E o \in CreateBackupOutcomes :
          /\ backupResults' =
                 PushResult(backupResults, createBackup(activeResources[rIdx], o))
          /\ staging' = staging \cup stagedFiles("zip", activeResources[rIdx], o)
          /\ rIdx' = NextResource(rIdx, Len(activeResources),
                                  createBackup(activeResources[rIdx], o))
    /\ inflight' = inflight \ { Call("createBackup", rIdx) }
    /\ pc' = "backup_loop"
    /\ UNCHANGED << variant, env, pgDumpAvailable, config, exitCode, error, runVars, discoveryVars,
                    dirReady, uploadVars, uploader, act, unitVars >>

\* the loop is over: return results
CreateMultipleBackupsReturn ==
    /\ pc = "backup_loop"
    /\ rIdx > Len(activeResources)
    /\ pc' = "backed_up"
    /\ UNCHANGED << variant, env, pgDumpAvailable, config, exitCode, error, runVars, discoveryVars,
                    backupVars, uploadVars, uploader, act, unitVars >>

Successes(results) == SelectSeq(results, LAMBDA r : r.success)

\* variant of AfterBackup without the check for zero successful backups
AfterBackupNoCheck ==
    /\ pc = "backed_up"
    /\ stageLog' = stageLog \o << "backup:end", "upload:start" >>
    /\ Invoke("drive.uploadMultipleBackups")
    /\ pc' = "upload_call"
    /\ UNCHANGED << variant, env, pgDumpAvailable, config, exitCode, error, discoveryVars, backupVars,
                    uploadVars, uploader, act, unitVars >>

\* runBackupProcess after step 3: no successful backup is fatal, else step 4
AfterBackup ==
    /\ pc = "backed_up"
    /\ IF Len(Successes(backupResults)) = 0
       THEN /\ Stage("backup:end")
            /\ Throw("No successful backups created")
            /\ UNCHANGED invoked
       ELSE /\ stageLog' = stageLog \o << "backup:end", "upload:start" >>
            /\ Invoke("drive.uploadMultipleBackups")
            /\ pc' = "upload_call"
            /\ UNCHANGED error
    /\ UNCHANGED << variant, env, pgDumpAvailable, config, exitCode, discoveryVars, backupVars,
                    uploadVars, uploader, act, unitVars >>

\* --------------------- GoogleDriveService / GoogleDriveOAuthService
\* the backups uploadMultipleBackups iterates over
\*   service account: backupResults.filter(result => result.success && result.filePath)
\*   OAuth:           backupResults.filter(r => r.success)
successfulBackups(u, results) ==
    IF u = "sa" THEN SelectSeq(results, LAMBDA r : r.success /\ r.filePath # "")
    ELSE SelectSeq(results, LAMBDA r : r.success)

\* the ids findOrCreateFolder can return: response.data.files[0].id of the
\* search, or the id of the folder it creates
FolderIds == {"folder", "folder2"}

\* initialize(): this.backupFolderId = await this.findOrCreateFolder(...)
initialize(id) ==
    /\ backupFolderId' = id
    /\ drive' = [drive EXCEPT !.initialized = Append(@, id)]

\* initialize() whose findOrCreateFolder rejects: logged and rethrown
initializeThrows ==
    /\ drive' = [drive EXCEPT !.initialized = Append(@, "error")]
    /\ UNCHANGED backupFolderId

\* what a pass of the upload loop hands to uploadBackup(backup.filePath,
\* backup.fileName), with the folder id the call reads and its outcome
Attempt(backup, o) ==
    [res |-> backup.res, ok |-> o = "ok", success |-> backup.success,
     name |-> backup.filePath, parent |-> backupFolderId]

\* variant of filesCreate whose metadata names no parent: the file lands in
\* the root of the drive
filesCreateNoParents(backup, o) ==
    IF o = "ok"
    THEN [drive EXCEPT !.files = @ \cup { [id |-> Len(uploadAttempts) + 1,
                                            name |-> backup.filePath,
                                            parent |-> "root",
                                            createdTime |-> DateAt(Now)] }]
    ELSE drive

\* drive.files.create({ requestBody: { name, parents: [this.backupFolderId] },
\* media }): a resolved call has created one file, with an id of its own
filesCreate(backup, o) ==
    IF o = "ok"
    THEN [drive EXCEPT !.files = @ \cup { [id |-> Len(uploadAttempts) + 1,
                                            name |-> backup.filePath,
                                            parent |-> backupFolderId,
                                            createdTime |-> DateAt(Now)] }]
    ELSE drive

\* uploadMultipleBackups up to its loop.
\*   service account: if (!this.backupFolderId) await this.initialize(), whose
\*     error is rethrown, outside any try block of uploadMultipleBackups
\*   OAuth: if (!this.backupFolderId) throw 'Google Drive service not initialized'
UploadMultipleBegin ==
    /\ pc = "upload_call"
    /\ uIdx' = 1
    /\ uploadAttempts' = << >>
    /\ uploadResults' = << >>
    /\ successful' = 0
    /\ failed' = 0
    /\ IF backupFolderId # ""
       THEN /\ pc' = "upload_loop"
            /\ UNCHANGED << backupFolderId, error, drive >>
       ELSE IF uploader = "sa"
       THEN \E o \in CallOutcomes :
               IF o = "ok"
               THEN /\ \E id \in FolderIds : initialize(id)
                    /\ pc' = "upload_loop"
                    /\ UNCHANGED error
               ELSE /\ Throw("initialize failed")
                    /\ initializeThrows
       ELSE /\ Throw("Google Drive service not initialized")
            /\ UNCHANGED << backupFolderId, drive >>
    /\ UNCHANGED << variant, env, pgDumpAvailable, config, exitCode, runVars, discoveryVars,
                    backupVars, uploader, act, unitVars >>

\* OAuth loop body: successful++ in the try block
CountSuccessful(n, o) == IF o = "ok" THEN n + 1 ELSE n

\* variant of CountFailed whose catch block only logs
CountFailedNever(n, o) == n

\* OAuth loop body: failed++ in the catch block
CountFailed(n, o) == IF o = "ok" THEN n ELSE n + 1

\* a pass of the upload loop begins.
\*   service account: a backup without a filePath is answered with a failure
\*     result and no call; else uploadBackup is called and awaited
\*   OAuth: uploadBackup is called and awaited
UploadStart ==
    /\ pc = "upload_loop"
    /\ uIdx <= Len(successfulBackups(uploader, backupResults))
    /\ LET backup == successfulBackups(uploader, backupResults)[uIdx]
       IN  IF uploader = "sa" /\ backup.filePath = ""
           THEN /\ uploadResults' =
                       Append(uploadResults, [success |-> FALSE, res |-> backup.res])
                /\ uIdx' = uIdx + 1
                /\ UNCHANGED << pc, inflight >>
           ELSE /\ inflight' = inflight \cup { Call("uploadBackup", uIdx) }
                /\ pc' = "upload_wait"
                /\ UNCHANGED << uIdx, uploadResults >>
    /\ UNCHANGED << variant, env, pgDumpAvailable, config, exitCode, error, runVars, discoveryVars,
                    dirReady, rIdx, backupResults, staging, backupFolderId,
                    uploadAttempts, successful, failed, drive, uploader, act,
                    unitVars >>

\* variant of UploadSettle in which a failed upload is thrown out of the loop
UploadSettleThrowOnFailure ==
    /\ pc = "upload_wait"
    /\ inflight' = inflight \ { Call("uploadBackup", uIdx) }
    /\ LET backup == successfulBackups(uploader, backupResults)[uIdx]
       IN  \E o \in CallOutcomes :
              /\ uploadAttempts' = Append(uploadAttempts, Attempt(backup, o))
              /\ drive' = filesCreate(backup, o)
              /\ IF o = "ok"
                 THEN /\ uploadResults' =
                             Append(uploadResults, [success |-> TRUE, res |-> backup.res])
                      /\ uIdx' = uIdx + 1
                      /\ pc' = "upload_loop"
                      /\ UNCHANGED error
                 ELSE /\ Throw("upload failed")
                      /\ UNCHANGED << uIdx, uploadResults >>
    /\ UNCHANGED << variant, env, pgDumpAvailable, config, exitCode, runVars, discoveryVars,
                    dirReady, rIdx, backupResults, staging, backupFolderId, successful,
                    failed, uploader, act, unitVars >>

\* the awaited uploadBackup settles.
\*   service account: uploadBackup returns an UploadResult (it catches its own
\*     errors), which is pushed
\*   OAuth: uploadBackup resolves or throws; successful++ or failed++
UploadSettle ==
    /\ pc = "upload_wait"
    /\ inflight' = inflight \ { Call("uploadBackup", uIdx) }
    /\ uIdx' = uIdx + 1
    /\ pc' = "upload_loop"
    /\ LET backup == successfulBackups(uploader, backupResults)[uIdx]
       IN  \E o \in CallOutcomes :
              /\ uploadAttempts' = Append(uploadAttempts, Attempt(backup, o))
              /\ drive' = filesCreate(backup, o)
              /\ IF uploader = "sa"
                 THEN /\ uploadResults' =
                             Append(uploadResults,
                                    [success |-> o = "ok", res |-> backup.res])
                      /\ UNCHANGED << successful, failed >>
                 ELSE /\ successful' = CountSuccessful(successful, o)
                      /\ failed' = CountFailed(failed, o)
                      /\ UNCHANGED uploadResults
    /\ UNCHANGED << variant, env, pgDumpAvailable, config, exitCode, error, runVars, discoveryVars,
                    dirReady, rIdx, backupResults, staging, backupFolderId, uploader,
                    act, unitVars >>

\* the loop is over: return uploadResults / { successful, failed }
UploadMultipleReturn ==
    /\ pc = "upload_loop"
    /\ uIdx > Len(successfulBackups(uploader, backupResults))
    /\ pc' = "uploaded"
    /\ UNCHANGED << variant, env, pgDumpAvailable, config, exitCode, error, runVars, discoveryVars,
                    backupVars, uploadVars, uploader, act, unitVars >>

\* the counts uploadMultipleBackups reports
\*   service account: successCount / failureCount of the Upload Summary
\*   OAuth:           the returned { successful, failed }
ReportedSucceeded ==
    IF uploader = "sa" THEN Len(SelectSeq(uploadResults, LAMBDA r : r.success))
    ELSE successful

ReportedFailed ==
    IF uploader = "sa" THEN Len(uploadResults) - ReportedSucceeded ELSE failed

\* ------------------------------------------- runBackupProcess, steps 5-6
\* variant of AfterUpload that runs the cleanup whatever the configuration says
AfterUploadAlwaysCleanup ==
    /\ pc = "uploaded"
    /\ stageLog' = stageLog \o << "upload:end", "cleanup:start" >>
    /\ Invoke("backup.cleanupOldBackups")
    /\ pc' = "cleanup_local"
    /\ UNCHANGED << variant, env, pgDumpAvailable, config, exitCode, error, discoveryVars, backupVars,
                    uploadVars, uploader, act, unitVars >>

\* after step 4: the optional cleanup, else the summary
AfterUpload ==
    /\ pc = "uploaded"
    /\ IF config.cleanupOldBackups
       THEN /\ stageLog' = stageLog \o << "upload:end", "cleanup:start" >>
            /\ Invoke("backup.cleanupOldBackups")
            /\ pc' = "cleanup_local"
       ELSE /\ stageLog' = stageLog \o << "upload:end", "summarize:start" >>
            /\ pc' = "summarize"
            /\ UNCHANGED invoked
    /\ UNCHANGED << variant, env, pgDumpAvailable, config, exitCode, error, discoveryVars, backupVars,
                    uploadVars, uploader, act, unitVars >>

\* stats.mtime of a file this run has written: the run lasts less than an hour
WrittenAt == DateAt(Now)

\* DatabaseBackupService.cleanupOldBackups(config.cleanupRetentionDays): the
\* whole body is one try block whose catch logs and returns, so the call
\* always resolves; it unlinks the backup files with stats.mtime < cutoffDate
LocalCleanup ==
    /\ pc = "cleanup_local"
    /\ \E o \in CallOutcomes :
          staging' =
              IF o = "ok"
              THEN { f \in staging :
                       ~DateLT(WrittenAt,
                               SetDateBack(DateAt(Now), config.cleanupRetentionDays)) }
              ELSE staging
    /\ Invoke("drive.cleanupOldBackups")
    /\ pc' = "cleanup_drive"
    /\ UNCHANGED << variant, env, pgDumpAvailable, config, exitCode, error, stageLog, discoveryVars,
                    dirReady, rIdx, backupResults, inflight, uploadVars, uploader, act,
                    unitVars >>

\* files.list({ q: `'${this.backupFolderId}' in parents and createdTime <
\* '${cutoffDate.toISOString()}' and trashed=false` }): the files of the run
\* the query matches
filesListed(id) ==
    { f \in drive.files :
        /\ f.parent = id
        /\ DateLT(f.createdTime, SetDateBack(DateAt(Now), config.cleanupRetentionDays)) }

\* the loop over the listed files: files.delete({ fileId }) for each, a failed
\* delete is logged and the loop goes on; `gone` are the files whose delete
\* resolved (none when files.list itself rejected)
filesDelete(d, id, gone) == [d EXCEPT !.files = @ \ gone, !.listed = id]

\* variant of initializeFirst that resolves the folder on every call
initializeFirstAlways == TRUE

\* cleanupOldBackups: if (!this.backupFolderId)
initializeFirst == backupFolderId = ""

\* GoogleDriveService.cleanupOldBackups: initialize() when no folder id is
\* cached (outside the try block, so its error is rethrown), then one try
\* block whose catch logs and returns
DriveCleanup ==
    /\ pc = "cleanup_drive"
    /\ IF initializeFirst
       THEN \E o \in CallOutcomes :
               IF o = "ok"
               THEN /\ \E id \in FolderIds :
                          /\ backupFolderId' = id
                          /\ \E gone \in SUBSET filesListed(id) :
                                drive' = filesDelete([drive EXCEPT
                                                        !.initialized = Append(@, id)],
                                                     id, gone)
                    /\ stageLog' = stageLog \o << "cleanup:end", "summarize:start" >>
                    /\ pc' = "summarize"
                    /\ UNCHANGED error
               ELSE /\ Throw("initialize failed")
                    /\ initializeThrows
                    /\ UNCHANGED stageLog
       ELSE /\ \E gone \in SUBSET filesListed(backupFolderId) :
                  drive' = filesDelete(drive, backupFolderId, gone)
            /\ stageLog' = stageLog \o << "cleanup:end", "summarize:start" >>
            /\ pc' = "summarize"
            /\ UNCHANGED << backupFolderId, error >>
    /\ UNCHANGED << variant, env, pgDumpAvailable, config, exitCode, invoked, discoveryVars, backupVars,
                    uIdx, uploadAttempts, uploadResults, successful, failed, uploader,
                    act, unitVars >>

\* step 6, generateSummary, and the normal return of runBackupProcess
GenerateSummary ==
    /\ pc = "summarize"
    /\ Stage("summarize:end")
    /\ pc' = "returned"
    /\ UNCHANGED << variant, env, pgDumpAvailable, config, exitCode, error, invoked, discoveryVars,
                    backupVars, uploadVars, uploader, act, unitVars >>

\* ----------------------------------------------------- the pipeline run
Init ==
    /\ variant \in {"days", "hours23"}
    /\ env \in RunEnvs
    /\ pc = "main"
    /\ uploader = "sa"
    /\ backupFolderId = ""
    /\ IdleRun
    /\ IdleDiscovery
    /\ IdleBackup
    /\ IdleUpload
    /\ IdleUnits
    /\ IdleActivity

Next ==
    \/ MainGetConfig
    \/ Construct
    \/ MainCatch
    \/ MainReturn
    \/ TestConnections
    \/ RunCatch
    \/ DiscoverProjects
    \/ DiscoverBranches
    \/ DiscoverBranchStep
    \/ DiscoverReturn
    \/ AfterDiscover
    \/ CreateMultipleBackupsBegin
    \/ CreateBackupStart
    \/ CreateBackupSettle
    \/ CreateMultipleBackupsReturn
    \/ AfterBackup
    \/ UploadMultipleBegin
    \/ UploadStart
    \/ UploadSettle
    \/ UploadMultipleReturn
    \/ AfterUpload
    \/ LocalCleanup
    \/ DriveCleanup
    \/ GenerateSummary

Spec == Init /\ [][Next]_vars

\* the pipeline run of a deployment with the cleanup switched on, when every
\* awaited call settles (resolves or rejects) and the single thread of control
\* then runs on: some step is taken whenever one is possible
InitDeployed ==
    /\ Init
    /\ variant = "hours23"
    /\ env = [DefaultEnv EXCEPT !.CLEANUP_OLD_BACKUPS = "true"]

FairSpec == InitDeployed /\ [][Next]_vars /\ WF_vars(Next)

\* ------------------------------------------------- start-up, every environment
\* main up to the call of runBackupProcess, from every environment
InitStartup ==
    /\ variant = "days"
    /\ env \in Envs
    /\ pc = "main"
    /\ uploader = "sa"
    /\ backupFolderId = ""
    /\ IdleRun
    /\ IdleDiscovery
    /\ IdleBackup
    /\ IdleUpload
    /\ IdleUnits
    /\ IdleActivity

NextStartup ==
    \/ MainGetConfig
    \/ Construct
    \/ MainCatch

SpecStartup == InitStartup /\ [][NextStartup]_vars

\* ------------------------------------------------- checkBranchActivity alone
\* the lookback windows tried: 1..MaxRetentionDays days, the default, and NaN
RetentionValues ==
    { Days(n) : n \in 1..MaxRetentionDays } \cup { Days(DefaultRetentionDays), NaNDays }

\* the updated_at values tried: every hour from one hour ahead of the clock
\* back to one hour before the longest window, and text that is no date
ActivityTimestamps ==
    { Iso(Now - age) : age \in (0 - 1)..(HoursPerDay * DefaultRetentionDays + 1) }
        \cup { Unparseable }

InitActivity ==
    /\ variant \in {"days", "hours23"}
    /\ act \in [ days : RetentionValues, updated_at : ActivityTimestamps, result : {"none"} ]
    /\ pc = "activity_call"
    /\ env = DefaultEnv
    /\ uploader = "sa"
    /\ backupFolderId = ""
    /\ IdleRun
    /\ IdleDiscovery
    /\ IdleBackup
    /\ IdleUpload
    /\ IdleUnits

\* one call of checkBranchActivity(branch) on a service built with this.retentionDays
CheckBranchActivity ==
    /\ pc = "activity_call"
    /\ act' = [act EXCEPT !.result =
                  IF checkBranchActivity(variant, act.days, act.updated_at)
                  THEN "active" ELSE "inactive"]
    /\ pc' = "activity_done"
    /\ UNCHANGED << variant, env, pgDumpAvailable, config, exitCode, error, runVars, discoveryVars,
                    backupVars, uploadVars, uploader, unitVars >>

NextActivity == CheckBranchActivity

SpecActivity == InitActivity /\ [][NextActivity]_vars

\* ------------------------------------------- uploadMultipleBackups alone
\* the BackupResult lists createMultipleBackups can return for up to
\* MaxArtifacts resources
ArtifactLists ==
    { [ i \in 1..Len(os) |-> createBackup(Resource(1, i, "uri"), os[i]) ] :
        os \in SeqsUpTo(CreateBackupOutcomes, MaxArtifacts) }

\* either uploader, with its folder id resolved by an earlier initialize() or not
InitUpload ==
    /\ uploader \in {"sa", "oauth"}
    /\ backupFolderId \in {"", "folder"}
    /\ backupResults \in ArtifactLists
    /\ pc = "upload_call"
    /\ variant = "days"
    /\ env = DefaultEnv
    /\ dirReady = TRUE
    /\ rIdx = 0
    /\ inflight = {}
    /\ staging = {}
    /\ IdleRun
    /\ IdleDiscovery
    /\ IdleUpload
    /\ IdleUnits
    /\ IdleActivity

NextUpload ==
    \/ UploadMultipleBegin
    \/ UploadStart
    \/ UploadSettle
    \/ UploadMultipleReturn

SpecUpload == InitUpload /\ [][NextUpload]_vars

\* ------------------------------------------------------ createBackup alone
\* the connection_uri values of a resource: missing, well-formed, and text
\* that parses to no host
ConnectionUris == {"", "uri", "uri with port, no password", "not a uri"}

\* the variables of process.env that spawn's env also sets: absent or set
ProcessEnvs ==
    { [OTHER |-> "x"],
      [OTHER |-> "x", PGSSLMODE |-> "disable", PGPASSWORD |-> "stale"] }

InitBackup ==
    /\ cb \in [ build : Builds,
                resource : { Resource(1, 1, u) : u \in ConnectionUris },
                o : AllBackupOutcomes, processEnv : ProcessEnvs,
                result : { << >> }, files : { {} }, spawned : { << >> },
                compressed : { FALSE } ]
    /\ pc = "create_call"
    /\ variant = "days"
    /\ env = DefaultEnv
    /\ uploader = "sa"
    /\ backupFolderId = ""
    /\ dirReady = TRUE
    /\ rIdx = 0
    /\ inflight = {}
    /\ staging = {}
    /\ backupResults = << >>
    /\ IdleRun
    /\ IdleDiscovery
    /\ IdleUpload
    /\ IdleActivity
    /\ IdleRemote
    /\ IdleSweep
    /\ IdleNaming
    /\ IdleConn

\* one call of createBackup(resource) in an existing staging directory
CreateBackup ==
    /\ pc = "create_call"
    /\ cb' = [cb EXCEPT !.result = createBackupOf(cb.build, cb.resource, cb.o),
                        !.files = stagedFiles(cb.build, cb.resource, cb.o),
                        !.spawned = spawnedWith(cb.build, cb.resource, cb.processEnv),
                        !.compressed = compressCalled(cb.build, cb.resource, cb.o)]
    /\ pc' = "create_done"
    /\ UNCHANGED << variant, env, pgDumpAvailable, config, exitCode, error, runVars, discoveryVars,
                    backupVars, uploadVars, uploader, act, remote, sweep, named,
                    conn >>

NextBackup == CreateBackup

SpecBackup == InitBackup /\ [][NextBackup]_vars

\* ------------------------------------- one backup attempt, step by step
\* createBackup of backup-service.ts followed through its awaits, for one
\* pass of the loop of createMultipleBackups.  pc is the state of the attempt:
\*   PENDING      createBackup(resource) was called
\*   DUMPING      executePgDump(args, env) is awaited
\*   DUMPED       pg_dump closed with code 0
\*   COMPRESSING  compressToZip(filePath) is awaited
\*   ARCHIVED     the success result is returned
\*   FAILED       a failure result is returned
InitAttempt ==
    /\ cb \in [ build : { b \in Builds : Compresses(b) },
                resource : { Resource(1, 1, u) : u \in ConnectionUris },
                o : AllBackupOutcomes, processEnv : ProcessEnvs,
                result : { << >> }, files : { {} }, spawned : { << >> },
                compressed : { FALSE } ]
    /\ activeResources = << cb.resource >>
    /\ pc = "PENDING"
    /\ variant = "days"
    /\ env = DefaultEnv
    /\ uploader = "sa"
    /\ backupFolderId = ""
    /\ dirReady = TRUE
    /\ rIdx = 1
    /\ inflight = {}
    /\ staging = {}
    /\ backupResults = << >>
    /\ projects = 0
    /\ pIdx = 0
    /\ branches = << >>
    /\ bIdx = 0
    /\ listing = << >>
    /\ branchLog = << >>
    /\ IdleRun
    /\ IdleUpload
    /\ IdleActivity
    /\ IdleRemote
    /\ IdleSweep
    /\ IdleNaming
    /\ IdleConn

\* the attempt ends with the result given
AttemptEnds(state, result) ==
    /\ pc' = state
    /\ cb' = [cb EXCEPT !.result = result,
                        !.files = stagedFiles(cb.build, cb.resource, cb.o)]

\* createBackup up to await this.executePgDump(args, env): the guard on
\* connection_uri returns a failure; a URI without host, database or user
\* throws inside the try block, whose catch returns a failure
AttemptDump ==
    /\ pc = "PENDING"
    /\ IF cb.resource.connection_uri = ""
       THEN AttemptEnds("FAILED",
                        FailureResult(cb.resource, "No connection URI provided", 0))
       ELSE IF ~UriParses(cb.resource.connection_uri)
       THEN AttemptEnds("FAILED",
                FailureResult(cb.resource,
                              "Invalid connection URI - missing required fields", 0))
       ELSE /\ pc' = "DUMPING"
            /\ cb' = [cb EXCEPT
                         !.spawned = spawnedWith(cb.build, cb.resource, cb.processEnv)]
    /\ UNCHANGED << variant, env, pgDumpAvailable, config, exitCode, error, runVars, discoveryVars,
                    backupVars, uploadVars, uploader, act, remote, sweep, named,
                    conn >>

\* variant of DumpSettles that returns the success result as soon as pg_dump
\* has closed with code 0
DumpSettlesNoCompression ==
    /\ pc = "DUMPING"
    /\ LET result == executePgDump(cb.o)
       IN  IF result.success
           THEN AttemptEnds("ARCHIVED",
                            SuccessResult(cb.resource, DumpPath(cb.build, cb.resource)))
           ELSE AttemptEnds("FAILED", FailureResult(cb.resource, result.error, 1))
    /\ UNCHANGED << variant, env, pgDumpAvailable, config, exitCode, error, runVars, discoveryVars,
                    backupVars, uploadVars, uploader, act, remote, sweep, named,
                    conn >>

\* executePgDump settles: if (result.success) ... else return a failure
DumpSettles ==
    /\ pc = "DUMPING"
    /\ LET result == executePgDump(cb.o)
       IN  IF result.success
           THEN pc' = "DUMPED" /\ UNCHANGED cb
           ELSE AttemptEnds("FAILED", FailureResult(cb.resource, result.error, 1))
    /\ UNCHANGED << variant, env, pgDumpAvailable, config, exitCode, error, runVars, discoveryVars,
                    backupVars, uploadVars, uploader, act, remote, sweep, named,
                    conn >>

\* await fs.stat(filePath), whose rejection is caught and returned as a
\* failure, then the call of compressToZip(filePath)
AttemptCompress ==
    /\ pc = "DUMPED"
    /\ IF ~cb.o.sqlStat
       THEN AttemptEnds("FAILED", FailureResult(cb.resource, StatError, 1))
       ELSE /\ pc' = "COMPRESSING"
            /\ cb' = [cb EXCEPT !.compressed = TRUE]
    /\ UNCHANGED << variant, env, pgDumpAvailable, config, exitCode, error, runVars, discoveryVars,
                    backupVars, uploadVars, uploader, act, remote, sweep, named,
                    conn >>

\* compressToZip settles: a rejection, or a rejection of the fs.stat of the
\* archive, is caught and returned as a failure; else the success result
CompressSettles ==
    /\ pc = "COMPRESSING"
    /\ IF ~cb.o.zip
       THEN AttemptEnds("FAILED", FailureResult(cb.resource, ZipError, 1))
       ELSE IF ~cb.o.zipStat
       THEN AttemptEnds("FAILED", FailureResult(cb.resource, StatError, 1))
       ELSE AttemptEnds("ARCHIVED",
                        SuccessResult(cb.resource, ZipPath(cb.build, cb.resource)))
    /\ UNCHANGED << variant, env, pgDumpAvailable, config, exitCode, error, runVars, discoveryVars,
                    backupVars, uploadVars, uploader, act, remote, sweep, named,
                    conn >>

\* createMultipleBackups: results.push(result) and the next pass of the loop
AttemptPushed ==
    /\ pc \in {"ARCHIVED", "FAILED"}
    /\ rIdx <= Len(activeResources)
    /\ backupResults' = PushResult(backupResults, cb.result)
    /\ rIdx' = rIdx + 1
    /\ UNCHANGED << variant, env, pgDumpAvailable, config, pc, exitCode, error, runVars, discoveryVars,
                    dirReady, inflight, staging, uploadVars, uploader, act, unitVars >>

NextAttempt ==
    \/ AttemptDump
    \/ DumpSettles
    \/ AttemptCompress
    \/ CompressSettles
    \/ AttemptPushed

SpecAttempt == InitAttempt /\ [][NextAttempt]_vars

\* --------------------------------------------- Drive folder resolution alone
\* a folder of the remote store
Folder(id, name, parent, trashed) ==
    [id |-> id, name |-> name, parent |-> parent, trashed |-> trashed]

\* the folders the store may hold before the first call: the backup folder
\* where the service creates it, a second folder of that name beside it, one
\* of that name in another folder, a trashed one, and one of another name
\* (home is where the service creates its folder)
StoredFolders(home) ==
    { Folder("a", FolderName, home, FALSE), Folder("b", FolderName, home, FALSE),
      Folder("n", FolderName, "elsewhere", FALSE), Folder("t", FolderName, home, TRUE),
      Folder("o", "other", home, FALSE) }

\* parents: parentId ? [parentId] : undefined (the root of the drive)
HomeOf(parentId) == IF parentId = "" THEN "root" ELSE parentId

\* the folders files.list returns for the query of findOrCreateFolder /
\* findOrCreateBackupFolder: name, folder type, not trashed and, when the
\* service account has a parent configured, that parent
Matching(u, parentId, folders) ==
    { f \in folders :
        /\ f.name = FolderName
        /\ ~f.trashed
        /\ (u = "sa" /\ parentId # "") => f.parent = parentId }

\* id of the folder files.create answers for the k-th folder it creates
CreatedId(k) == "new" \o ToString(k)

InitFolder ==
    /\ uploader \in {"sa", "oauth"}
    /\ \E parentId \in {"", "parent"} :
          /\ uploader = "oauth" => parentId = ""
          /\ \E before \in SUBSET StoredFolders(HomeOf(parentId)) :
                remote = [parentFolderId |-> parentId, before |-> before,
                          folders |-> before, returned |-> << >>]
    /\ pc = "folder_call"
    /\ variant = "days"
    /\ env = DefaultEnv
    /\ backupFolderId = ""
    /\ IdleRun
    /\ IdleDiscovery
    /\ IdleBackup
    /\ IdleUpload
    /\ IdleActivity
    /\ IdleCreateBackup
    /\ IdleSweep
    /\ IdleNaming
    /\ IdleConn

\* variant of FindOrCreateFolder that creates the folder without searching
FindOrCreateFolderNoSearch ==
    /\ pc = "folder_call"
    /\ Len(remote.returned) < MaxResolves
    /\ \E create \in CallOutcomes :
          IF create = "error"
          THEN remote' = [remote EXCEPT !.returned = Append(@, "")]
          ELSE LET id == CreatedId(Cardinality(remote.folders \ remote.before) + 1)
               IN  remote' = [remote EXCEPT
                       !.folders = @ \cup { Folder(id, FolderName,
                                                   HomeOf(remote.parentFolderId), FALSE) },
                       !.returned = Append(@, id)]
    /\ UNCHANGED << variant, env, pgDumpAvailable, config, pc, exitCode, error, runVars, discoveryVars,
                    backupVars, uploadVars, uploader, act, cb, sweep, named,
                    conn >>

\* one call of findOrCreateFolder (service account) / findOrCreateBackupFolder
\* (OAuth): search, answer files[0].id when something matches, else create.
\* An error of either request is rethrown (logged here as the answer "").
FindOrCreateFolder ==
    /\ pc = "folder_call"
    /\ Len(remote.returned) < MaxResolves
    /\ \E list \in CallOutcomes, create \in CallOutcomes :
          LET files == Matching(uploader, remote.parentFolderId, remote.folders)
          IN  IF list = "error"
              THEN remote' = [remote EXCEPT !.returned = Append(@, "")]
              ELSE IF files # {}
              THEN \E f \in files : remote' = [remote EXCEPT !.returned = Append(@, f.id)]
              ELSE IF create = "error"
              THEN remote' = [remote EXCEPT !.returned = Append(@, "")]
              ELSE LET id == CreatedId(Cardinality(remote.folders \ remote.before) + 1)
                   IN  remote' = [remote EXCEPT
                           !.folders = @ \cup { Folder(id, FolderName,
                                                       HomeOf(remote.parentFolderId), FALSE) },
                           !.returned = Append(@, id)]
    /\ UNCHANGED << variant, env, pgDumpAvailable, config, pc, exitCode, error, runVars, discoveryVars,
                    backupVars, uploadVars, uploader, act, cb, sweep, named,
                    conn >>

\* no further call is made
FolderCallsEnd ==
    /\ pc = "folder_call"
    /\ remote.returned # << >>
    /\ pc' = "folder_done"
    /\ UNCHANGED << variant, env, pgDumpAvailable, config, exitCode, error, runVars, discoveryVars,
                    backupVars, uploadVars, uploader, act, unitVars >>

NextFolder == FindOrCreateFolder \/ FolderCallsEnd

SpecFolder == InitFolder /\ [][NextFolder]_vars

\* ------------------------------------------------ cleanupOldBackups alone
\* the three cleanup passes: "local" (DatabaseBackupService), "sa"
\* (GoogleDriveService) and "oauth" (GoogleDriveOAuthService)
SweepKinds == {"local", "sa", "oauth"}

\* file.endsWith('.dump') || file.endsWith('.sql') || file.endsWith('.zip')
BackupExtensions == {"dump", "sql", "zip"}

\* the extensions of the files found in the directory / the Drive folder
FileExtensions(kind) == IF kind = "local" THEN BackupExtensions \cup {"log"} ELSE {"zip"}

\* the retention the boundary files are laid around: the configured one, or
\* one day when the configured value is NaN
LaidAround(days) == IF days.nan THEN 1 ELSE days.n

\* the files tried: for each extension one file an hour older than the
\* retention boundary, one exactly on it and one an hour younger; t is the
\* modification time (local) or the creation time (remote)
SweepFiles(kind, days) ==
    { [ext |-> x, t |-> Now - HoursPerDay * LaidAround(days) + k] :
        x \in FileExtensions(kind), k \in {0 - 1, 0, 1} }

\* the clock reading when runBackupProcess was entered: the run has lasted
\* exactly the retention window when the pass reads the clock, or an hour
\* longer; the files with a time from then on are the files of this run
RunStarts(days) ==
    { Now - HoursPerDay * LaidAround(days), Now - HoursPerDay * LaidAround(days) - 1 }

\* how many files the store puts on the one page a files.list call without
\* pageToken answers with; fs.readdir (local) has no pages
PageSizes(kind) == IF kind = "local" THEN {0} ELSE 1..MaxSweepFiles

\* cutoffDate.toISOString(): a RangeError for the Invalid Date
ToISOStringThrows(d) == ~d.valid

InitSweep ==
    /\ \E kind \in SweepKinds,
          days \in { Days(n) : n \in 1..MaxRetentionDays } \cup { NaNDays } :
          \E files \in SeqsUpTo(SweepFiles(kind, days), MaxSweepFiles),
             pageSize \in PageSizes(kind),
             started \in RunStarts(days) :
              /\ sweep = [kind |-> kind, days |-> days, files |-> files, old |-> << >>,
                          idx |-> 0, attempted |-> << >>, deleted |-> {},
                          listed |-> FALSE, pageSize |-> pageSize,
                          started |-> started,
                          nextPageToken |-> FALSE, failed |-> FALSE,
                          ended |-> ""]
              /\ uploader = IF kind = "oauth" THEN "oauth" ELSE "sa"
    /\ pc = "sweep_call"
    /\ variant = "days"
    /\ env = DefaultEnv
    /\ backupFolderId = "folder"
    /\ IdleRun
    /\ IdleDiscovery
    /\ IdleBackup
    /\ IdleUpload
    /\ IdleActivity
    /\ IdleCreateBackup
    /\ IdleRemote
    /\ IdleNaming
    /\ IdleConn

\* response.data.files of one files.list call: no pageToken is ever sent, so
\* the response is the first page of the query's results
FirstPage(positions, pageSize) ==
    SubSeq(positions, 1, IF Len(positions) < pageSize THEN Len(positions) ELSE pageSize)

\* orderBy: 'createdTime asc' (service-account query)
RECURSIVE OrderByCreatedTime(_, _)
OrderByCreatedTime(files, positions) ==
    IF positions = << >> THEN << >>
    ELSE LET among == { positions[k] : k \in 1..Len(positions) }
             first == CHOOSE i \in among :
                         \A j \in among : \/ files[i].t < files[j].t
                                        \/ (files[i].t = files[j].t /\ i <= j)
         IN  << first >> \o OrderByCreatedTime(files,
                                SelectSeq(positions, LAMBDA x : x # first))

\* the positions in files of the entries the loop goes through
\*   local: every directory entry (the extension and the age are tested in the loop)
\*   sa:    the files the query createdTime < cutoffDateString selects
\*   oauth: the listed files for which createdDate < cutoffDate
OldFiles(kind, cutoffDate, files, pageSize) ==
    LET positions == [ i \in 1..Len(files) |-> i ]
        older(i) == DateLT(DateAt(files[i].t), cutoffDate)
    IN  IF kind = "local" THEN positions
        ELSE IF kind = "sa"
        THEN FirstPage(OrderByCreatedTime(files, SelectSeq(positions, older)), pageSize)
        ELSE SelectSeq(FirstPage(positions, pageSize), older)

\* response.data.nextPageToken, which neither pass reads: the query has more
\* results than the page the response carries
NextPageToken(kind, cutoffDate, files, pageSize) ==
    LET positions == [ i \in 1..Len(files) |-> i ]
        older(i) == DateLT(DateAt(files[i].t), cutoffDate)
    IN  IF kind = "local" THEN FALSE
        ELSE IF kind = "sa" THEN Len(SelectSeq(positions, older)) > pageSize
        ELSE Len(positions) > pageSize

\* cleanupOldBackups up to its loop: the cutoff and the listing.  Every error
\* here is inside the try block: the local and the service-account pass log it
\* and return, the OAuth pass logs and rethrows it.
SweepBegin ==
    /\ pc = "sweep_call"
    /\ LET cutoffDate == SetDateBack(DateAt(Now), sweep.days)
       IN  \E list \in CallOutcomes :
              IF \/ list = "error"
                 \/ sweep.kind = "sa" /\ ToISOStringThrows(cutoffDate)
              THEN /\ sweep' = [sweep EXCEPT
                                   !.failed = TRUE,
                                   !.ended = IF sweep.kind = "oauth" THEN "threw"
                                             ELSE "returned"]
                   /\ pc' = "sweep_done"
              ELSE /\ sweep' = [sweep EXCEPT
                                   !.old = OldFiles(sweep.kind, cutoffDate, sweep.files,
                                                    sweep.pageSize),
                                   !.nextPageToken =
                                       NextPageToken(sweep.kind, cutoffDate, sweep.files,
                                                     sweep.pageSize),
                                   !.idx = 1, !.listed = TRUE]
                   /\ pc' = "sweep_loop"
    /\ UNCHANGED << variant, env, pgDumpAvailable, config, exitCode, error, runVars, discoveryVars,
                    backupVars, uploadVars, uploader, act, cb, remote, named,
                    conn >>

\* where a failed delete leaves the pass: the service-account loop catches it
\* per file and goes on (""); the local pass has one try block around the
\* whole loop, whose catch logs and returns; the OAuth pass has one try block
\* around the whole loop, whose catch rethrows
AfterDeleteError(kind) ==
    IF kind = "sa" THEN "" ELSE IF kind = "oauth" THEN "threw" ELSE "returned"

\* one pass of the loop
\*   local: extension test, fs.stat, stats.mtime < cutoffDate, fs.unlink
\*   sa / oauth: drive.files.delete
SweepStep ==
    /\ pc = "sweep_loop"
    /\ sweep.idx <= Len(sweep.old)
    /\ LET i == sweep.old[sweep.idx]
           file == sweep.files[i]
           cutoffDate == SetDateBack(DateAt(Now), sweep.days)
           skipped == /\ sweep.kind = "local"
                      /\ \/ file.ext \notin BackupExtensions
                         \/ ~DateLT(DateAt(file.t), cutoffDate)
       IN  \E stat \in CallOutcomes, delete \in CallOutcomes :
              IF sweep.kind = "local" /\ file.ext \in BackupExtensions /\ stat = "error"
              THEN /\ sweep' = [sweep EXCEPT !.failed = TRUE, !.ended = "returned"]
                   /\ pc' = "sweep_done"
              ELSE IF skipped
              THEN /\ sweep' = [sweep EXCEPT !.idx = @ + 1]
                   /\ UNCHANGED pc
              ELSE IF delete = "ok"
              THEN /\ sweep' = [sweep EXCEPT !.idx = @ + 1,
                                             !.attempted = Append(@, i),
                                             !.deleted = @ \cup {i}]
                   /\ UNCHANGED pc
              ELSE /\ sweep' = [sweep EXCEPT !.idx = @ + 1,
                                             !.attempted = Append(@, i),
                                             !.failed = TRUE,
                                             !.ended = AfterDeleteError(sweep.kind)]
                   /\ pc' = IF AfterDeleteError(sweep.kind) = "" THEN pc ELSE "sweep_done"
    /\ UNCHANGED << variant, env, pgDumpAvailable, config, exitCode, error, runVars, discoveryVars,
                    backupVars, uploadVars, uploader, act, cb, remote, named,
                    conn >>

\* the loop is over: the pass returns
SweepReturn ==
    /\ pc = "sweep_loop"
    /\ sweep.idx > Len(sweep.old)
    /\ sweep' = [sweep EXCEPT !.ended = "returned"]
    /\ pc' = "sweep_done"
    /\ UNCHANGED << variant, env, pgDumpAvailable, config, exitCode, error, runVars, discoveryVars,
                    backupVars, uploadVars, uploader, act, cb, remote, named,
                    conn >>

NextSweep == SweepBegin \/ SweepStep \/ SweepReturn

SpecSweep == InitSweep /\ [][NextSweep]_vars

\* ------------------------------------------- generateBackupFileName alone
\* Strings are sequences of one-character strings.
MaxNameLen == 1

LowerCase == {"a", "b", "c", "d", "e", "f", "g", "h", "i", "j", "k", "l", "m",
              "n", "o", "p", "q", "r", "s", "t", "u", "v", "w", "x", "y", "z"}

UpperCase == {"A", "B", "C", "D", "E", "F", "G", "H", "I", "J", "K", "L", "M",
              "N", "O", "P", "Q", "R", "S", "T", "U", "V", "W", "X", "Y", "Z"}

Digits == {"0", "1", "2", "3", "4", "5", "6", "7", "8", "9"}

\* the characters the class [^a-zA-Z0-9-_] does not match
NameAllowed == LowerCase \cup UpperCase \cup Digits \cup {"-", "_"}

\* the characters a project or branch name is drawn from: one the class keeps,
\* the separator, and one the class replaces
NameChars == {"a", "_", "/"}

Names == UNION { [1..n -> NameChars] : n \in 1..MaxNameLen }

\* the clock readings: a second, its last millisecond, and the next second
Instants == { [sec |-> 0, ms |-> 0], [sec |-> 0, ms |-> 999], [sec |-> 1, ms |-> 0] }

NotAfter(t, u) == t.sec < u.sec \/ (t.sec = u.sec /\ t.ms <= u.ms)

Digit(n) == CHOOSE d \in Digits : ToString(n) = d

\* Date.prototype.toISOString: YYYY-MM-DDTHH:mm:ss.sssZ
ToISOString(t) ==
    << "2", "0", "2", "6", "-", "0", "1", "-", "0", "1", "T",
       "0", "0", ":", "0", "0", ":", Digit(t.sec \div 10), Digit(t.sec % 10), ".",
       Digit(t.ms \div 100), Digit((t.ms \div 10) % 10), Digit(t.ms % 10), "Z" >>

\* String.prototype.replace with a global pattern that matches one character
ReplaceAll(str, matched, to) ==
    [ i \in 1..Len(str) |-> IF str[i] \in matched THEN to ELSE str[i] ]

\* String.prototype.replace with a string pattern: the first occurrence only
ReplaceFirst(str, ch, to) ==
    IF \E i \in 1..Len(str) : str[i] = ch
    THEN LET k == CHOOSE i \in 1..Len(str) :
                      str[i] = ch /\ \A j \in 1..(i - 1) : str[j] # ch
         IN  [ i \in 1..Len(str) |-> IF i = k THEN to ELSE str[i] ]
    ELSE str

\* String.prototype.slice(0, -n)
SliceOffEnd(str, n) == SubSeq(str, 1, Len(str) - n)

\* generateBackupFileName: const timestamp
Timestamp(now) ==
    SliceOffEnd(ReplaceFirst(ReplaceAll(ToISOString(now), {":", "."}, "-"), "T", "_"), 5)

AllChars == NameAllowed \cup NameChars \cup {":", ".", "T", "Z"}

\* variant of Sanitize that leaves the name as it is
SanitizeNothing(name) == name

\* name.replace(/[^a-zA-Z0-9-_]/g, '_')
Sanitize(name) == ReplaceAll(name, AllChars \ NameAllowed, "_")

\* generateBackupFileName: const extension
Extension(customFormat) ==
    IF customFormat THEN << "d", "u", "m", "p" >> ELSE << "s", "q", "l" >>

generateBackupFileName(projectName, branchName, customFormat, now) ==
    Sanitize(projectName) \o << "_" >> \o Sanitize(branchName) \o << "_" >>
    \o Timestamp(now) \o << "." >> \o Extension(customFormat)

InitNaming ==
    /\ pc = "naming"
    /\ variant = "days"
    /\ env = DefaultEnv
    /\ uploader = "sa"
    /\ backupFolderId = ""
    /\ named = << >>
    /\ IdleConn
    /\ IdleRun
    /\ IdleDiscovery
    /\ IdleBackup
    /\ IdleUpload
    /\ IdleActivity
    /\ IdleCreateBackup
    /\ IdleRemote
    /\ IdleSweep

\* one call of generateBackupFileName by createBackup; the clock never goes
\* back between calls, and the calls of one service share its customFormat
GenerateBackupFileName ==
    /\ pc = "naming"
    /\ Len(named) < 2
    /\ \E projectName \in Names, branchName \in Names, customFormat \in BOOLEAN,
          now \in Instants :
          /\ \A i \in 1..Len(named) :
                NotAfter(named[i].now, now) /\ named[i].customFormat = customFormat
          /\ named' = Append(named,
                 [projectName |-> projectName, branchName |-> branchName,
                  customFormat |-> customFormat, now |-> now,
                  fileName |-> generateBackupFileName(projectName, branchName,
                                                      customFormat, now)])
    /\ UNCHANGED << variant, env, pgDumpAvailable, config, pc, exitCode, error, runVars, discoveryVars,
                    backupVars, uploadVars, uploader, act, cb, remote, sweep,
                    conn >>

NextNaming == GenerateBackupFileName

SpecNaming == InitNaming /\ [][NextNaming]_vars

\* ------------------------------------------- getBranchConnectionUri alone
MaxRoles == 2

MaxDatabases == 2

RoleNames == {"neondb_owner", "app"}

DatabaseNames == {"neondb", "appdb"}

\* how the catalog calls of one getBranchConnectionUri end
ConnOutcomes == [ roles : CallOutcomes, databases : CallOutcomes, uri : CallOutcomes ]

\* databases.some(db => db.name === databaseName)
dbExists(databases, databaseName) ==
    \E i \in 1..Len(databases) : databases[i] = databaseName

\* let actualDatabaseName
actualDatabaseName(databases, databaseName) ==
    IF Len(databases) > 0 /\ ~dbExists(databases, databaseName)
    THEN databases[1]
    ELSE databaseName

ConnThrew(c, msg) == [c EXCEPT !.ended = "threw", !.error = msg]

\* the getConnectionUri request and its answer
ConnRequest(c, role, database) ==
    IF c.o.uri = "ok"
    THEN [c EXCEPT !.requested = [role_name |-> role, database_name |-> database],
                   !.ended = "returned"]
    ELSE [c EXCEPT !.requested = [role_name |-> role, database_name |-> database],
                   !.ended = "threw", !.error = "getConnectionUri failed"]

\* getBranchConnectionUri of the two builds of the discovery service
\*   days (part_002):    one request, with the role 'neondb_owner' and databaseName
\*   hours23 (part_003): list the roles, fail on none, list the databases,
\*                       choose the database, request
getBranchConnectionUriOf(build, c) ==
    IF build = "days"
    THEN ConnRequest(c, "neondb_owner", c.databaseName)
    ELSE IF c.o.roles = "error" THEN ConnThrew(c, "listProjectBranchRoles failed")
    ELSE IF Len(c.roles) = 0 THEN ConnThrew(c, "No roles found for branch")
    ELSE IF c.o.databases = "error"
    THEN ConnThrew(c, "listProjectBranchDatabases failed")
    ELSE ConnRequest(c, c.roles[1], actualDatabaseName(c.databases, c.databaseName))

InitConn ==
    /\ variant \in {"days", "hours23"}
    /\ conn \in [ roles : SeqsUpTo(RoleNames, MaxRoles),
                  databases : SeqsUpTo(DatabaseNames, MaxDatabases),
                  databaseName : {"neondb"}, o : ConnOutcomes,
                  requested : { << >> }, ended : {""}, error : {""} ]
    /\ pc = "conn_call"
    /\ env = DefaultEnv
    /\ uploader = "sa"
    /\ backupFolderId = ""
    /\ IdleRun
    /\ IdleDiscovery
    /\ IdleBackup
    /\ IdleUpload
    /\ IdleActivity
    /\ IdleCreateBackup
    /\ IdleRemote
    /\ IdleSweep
    /\ IdleNaming

\* one call getBranchConnectionUri(project.id, branch.id)
GetBranchConnectionUri ==
    /\ pc = "conn_call"
    /\ conn' = getBranchConnectionUriOf(variant, conn)
    /\ pc' = "conn_done"
    /\ UNCHANGED << variant, env, pgDumpAvailable, config, exitCode, error, runVars, discoveryVars,
                    backupVars, uploadVars, uploader, act, cb, remote, sweep, named >>

NextConn == GetBranchConnectionUri

SpecConn == InitConn /\ [][NextConn]_vars

\* =============================================================== claims
IsPrefix(s, t) == Len(s) <= Len(t) /\ SubSeq(t, 1, Len(s)) = s

InSeq(x, s) == \E i \in 1..Len(s) : s[i] = x

Last(s) == s[Len(s)]

\* the stage events of a run that skips nothing
FullRun(cleanup) ==
    << "verify:start", "verify:end", "discover:start", "discover:end",
       "backup:start", "backup:end", "upload:start", "upload:end" >>
    \o (IF cleanup THEN << "cleanup:start", "cleanup:end" >> ELSE << >>)
    \o << "summarize:start", "summarize:end" >>

\* the stage events up to and including ev
Through(ev) ==
    LET full == FullRun(FALSE)
        k == CHOOSE i \in 1..Len(full) : full[i] = ev
    IN  SubSeq(full, 1, k)

\* runBackupProcess was entered and has returned or raised to main
RunEnded == pc \in {"returned", "main_catch", "exited"} /\ stageLog # << >>

\* the two exits of the stage machine that the specification names
NamedExit ==
    \/ error = "" /\ stageLog = FullRun(config.cleanupOldBackups)
    \/ error = "" /\ stageLog = Through("discover:end") /\ activeResources = << >>
    \/ error = "No successful backups created" /\ stageLog = Through("backup:end")

\* a stage ended by an error that escaped it
ErrorExit ==
    \/ error = "Google Drive connection test failed" /\ stageLog = Through("verify:start")
    \/ error = "listProjects failed" /\ stageLog = Through("discover:start")
    \/ error = "mkdir failed" /\ stageLog = Through("backup:start")
    \/ error = "initialize failed" /\ stageLog = Through("upload:start")

\* C1 as stated: the stages of runBackupProcess run in the order verify,
\* discover, backup, upload, cleanup (when enabled), summarize, each once and
\* each after the one before it ended, and a run that skips later stages
\* ended either with no resources after discover or with zero successful
\* backups after backup.
C1_Original ==
    /\ IsPrefix(stageLog, FullRun(config.cleanupOldBackups))
    /\ RunEnded => NamedExit

\* C1 as amended: the same order, and a run that skips later stages ended
\* with no resources after discover, with zero successful backups after
\* backup, or with an error that escaped verify (failed Drive test),
\* discover (listProjects), backup (staging directory) or upload (Drive folder).
C1_StageOrder ==
    /\ IsPrefix(stageLog, FullRun(config.cleanupOldBackups))
    /\ RunEnded => NamedExit \/ ErrorExit

C1_Witness ==
    /\ pc = "exited"
    /\ stageLog = FullRun(TRUE)

\* createMultipleBackups has returned to runBackupProcess, which has acted on it
BackupsJudged ==
    /\ Len(activeResources) > 0
    /\ Len(backupResults) = Len(activeResources)
    /\ pc \notin {"backup_loop", "backed_up"}

UploadAndLaterOps ==
    {"drive.uploadMultipleBackups", "backup.cleanupOldBackups", "drive.cleanupOldBackups"}

\* C2: when discovery returned at least one resource and every artifact that
\* createMultipleBackups returned has success = false, the run raises 'No
\* successful backups created' (exit code 1), and no upload, no local or
\* remote cleanup and no summary happens.
C2_ZeroSuccessfulIsFatal ==
    (BackupsJudged /\ Successes(backupResults) = << >>) =>
        /\ error = "No successful backups created"
        /\ pc \in {"threw", "main_catch", "exited"}
        /\ pc = "exited" => exitCode = 1
        /\ invoked \cap UploadAndLaterOps = {}
        /\ uploadAttempts = << >>
        /\ backupFolderId = ""
        /\ stageLog = Through("backup:end")

C2_Witness ==
    /\ pc = "exited"
    /\ exitCode = 1
    /\ error = "No successful backups created"
    /\ Len(backupResults) >= 2
    /\ Successes(backupResults) = << >>

\* discovery has returned an empty sequence to runBackupProcess, which has acted on it
ZeroResourcesFound == InSeq("discover:end", stageLog) /\ activeResources = << >>

VerifyProbes == {"drive.testConnection", "backup.checkPgDumpAvailability"}

\* C3 as stated: when discovery returns zero resources the run returns without
\* error and no operation of the backup service or of the Drive service was
\* invoked during the run.
C3_Original ==
    ZeroResourcesFound =>
        /\ pc \in {"returned", "exited"}
        /\ error = ""
        /\ invoked = {}

\* C3 as amended: when discovery returns zero resources the run returns
\* without error (exit code 0), and the only operations of the backup service
\* and of the Drive service invoked during the run are the two probes of the
\* verify stage, testConnection and checkPgDumpAvailability.
C3_NothingToDo ==
    ZeroResourcesFound =>
        /\ pc \in {"returned", "exited"}
        /\ error = ""
        /\ pc = "exited" => exitCode = 0
        /\ invoked = VerifyProbes
        /\ backupResults = << >>
        /\ uploadAttempts = << >>

C3_Witness ==
    /\ pc = "exited"
    /\ exitCode = 0
    /\ stageLog = Through("discover:end")

\* C4: the process exits with code 0 on a run that reached summarize, and
\* with a non-zero code on every fatal condition (missing input, failed Drive
\* test, zero successful backups, an exception that escaped a stage): an
\* error is never dropped on the way to the exit.
C4_ExitCodes ==
    /\ (pc = "exited") = (exitCode # -1)
    /\ (pc = "exited" /\ InSeq("summarize:end", stageLog)) => exitCode = 0
    /\ error # "" => /\ pc \in {"threw", "main_catch", "exited"}
                     /\ ~InSeq("summarize:start", stageLog)
                     /\ pc = "exited" => exitCode = 1

C4_Witness ==
    /\ pc = "exited"
    /\ exitCode = 1
    /\ error = "initialize failed"

\* a credential set is fully configured when each of its variables is set
ServiceAccountConfigured == env.GOOGLE_DRIVE_CREDENTIALS # ""

OAuthConfigured ==
    /\ env.GOOGLE_CLIENT_ID # ""
    /\ env.GOOGLE_CLIENT_SECRET # ""
    /\ env.GOOGLE_REFRESH_TOKEN # ""

ExactlyOneConfigured == ServiceAccountConfigured # OAuthConfigured

ConfiguredUploader == IF ServiceAccountConfigured THEN "sa" ELSE "oauth"

\* C5: with the catalog key set and well-formed credentials, start-up succeeds
\* if and only if exactly one of the two credential sets is fully configured,
\* the uploader used is the configured one, and otherwise start-up fails with
\* a configuration error before any stage runs.
C5_Original ==
    (env.NEON_API_KEY # "" /\ env.GOOGLE_DRIVE_CREDENTIALS # "not json") =>
        /\ pc = "run" => ExactlyOneConfigured /\ uploader = ConfiguredUploader
        /\ pc = "exited" => ~ExactlyOneConfigured /\ stageLog = << >>

\* C6: for every branch and every lookback window of whole days,
\* checkBranchActivity answers true if and only if updated_at >= now - window,
\* the boundary included.
C6_Original ==
    (pc = "activity_done" /\ ~act.days.nan) =>
        ( act.result = "active"
            <=> ( /\ act.updated_at.iso
                  /\ act.updated_at.t >= Now - HoursPerDay * act.days.n ) )

\* C7: for every updated_at that cannot be parsed as a timestamp,
\* checkBranchActivity answers true.
C7_Original ==
    (pc = "activity_done" /\ ~act.updated_at.iso) => act.result = "active"

\* createMultipleBackups has ended: returned, or raised out of initialize
BackupCallEnded == pc = "backed_up" \/ (pc = "threw" /\ error = "mkdir failed")

\* artifact i is the outcome of resource i, for every resource
OneArtifactPerResource ==
    /\ Len(backupResults) = Len(activeResources)
    /\ \A i \in 1..Len(activeResources) :
          backupResults[i].res = << activeResources[i].project, activeResources[i].branch >>

\* C8 as stated: createMultipleBackups over N resources returns exactly N
\* artifacts, artifact i being the outcome of resource i, and no failure makes
\* the call stop early or return fewer than N artifacts.
C8_Original == BackupCallEnded => OneArtifactPerResource

\* C8 as amended: once the staging directory exists (initialize succeeded),
\* createMultipleBackups returns exactly N artifacts, artifact i being the
\* outcome of resource i, whatever attempts fail; when initialize fails the
\* call raises before any attempt and returns nothing.
C8_OneArtifactPerResource ==
    /\ pc = "backed_up" => dirReady /\ OneArtifactPerResource
    /\ pc = "backup_loop" => /\ dirReady
                             /\ Len(backupResults) = rIdx - 1
                             /\ \A i \in 1..Len(backupResults) :
                                   backupResults[i].res = << activeResources[i].project,
                                                             activeResources[i].branch >>
    /\ (pc = "threw" /\ error = "mkdir failed") => backupResults = << >> /\ ~dirReady

C8_Witness ==
    /\ pc = "backed_up"
    /\ Len(backupResults) >= 3
    /\ ~backupResults[1].success
    /\ backupResults[2].success
    /\ backupResults[3].error = StatError

\* M of claim C9: the artifacts with success = true
SuccessIds ==
    LET ok == Successes(backupResults) IN [ i \in 1..Len(ok) |-> ok[i].res ]

AttemptIds == [ i \in 1..Len(uploadAttempts) |-> uploadAttempts[i].res ]

FailedAttempts == Cardinality({ i \in 1..Len(uploadAttempts) : ~uploadAttempts[i].ok })

AllUploadsAttemptedAndCounted ==
    /\ AttemptIds = SuccessIds
    /\ ReportedFailed = FailedAttempts
    /\ ReportedSucceeded = Len(SuccessIds) - FailedAttempts
    /\ ReportedSucceeded + ReportedFailed = Len(SuccessIds)

\* C9 as stated: uploadMultipleBackups never aborts early: each of the M
\* artifacts with success = true is attempted, the failed count is the number
\* of failed uploads, the succeeded count the rest, and they add up to M, in
\* both uploader variants.
C9_Original == (pc = "uploaded" \/ pc = "threw") => AllUploadsAttemptedAndCounted

\* C9 as amended: once the destination folder id is resolved (service account:
\* cached, or initialize succeeds; OAuth: cached by an earlier initialize) the
\* call attempts each of the M artifacts and reports failed and succeeded
\* counts that add up to M; with no folder id (initialize fails, or the OAuth
\* service was not initialized) the call raises before any upload is attempted.
C9_UploadNeverAbortsOnceStarted ==
    /\ pc = "uploaded" => backupFolderId # "" /\ AllUploadsAttemptedAndCounted
    /\ pc = "upload_loop" => Len(uploadAttempts) = uIdx - 1
    /\ pc = "threw" =>
          /\ uploadAttempts = << >>
          /\ backupFolderId = ""
          /\ error = IF uploader = "sa" THEN "initialize failed"
                     ELSE "Google Drive service not initialized"

C9_Witness ==
    /\ pc = "uploaded"
    /\ uploader = "oauth"
    /\ Len(uploadAttempts) >= 2
    /\ ~uploadAttempts[1].ok
    /\ uploadAttempts[2].ok
    /\ Len(backupResults) > Len(uploadAttempts)

\* the call outcomes of a logged branch end with a resolved connection URI
Resolved(e) == e.calls # << >> /\ Last(e.calls) = "ok"

\* C10: a failure to enumerate the branches of one project removes only that
\* project's branches: every project is still processed, every branch of every
\* other project is checked and, when active and resolvable, returned, and
\* discovery itself fails only when listProjects does.
C10_ProjectFailureIsolated ==
    /\ pc = "discovered" =>
          /\ Len(listing) = projects
          /\ \A p \in 1..projects : \A b \in 1..listing[p] :
                \E i \in 1..Len(branchLog) : branchLog[i].id = << p, b >>
          /\ \A i \in 1..Len(branchLog) :
                (branchLog[i].active /\ Resolved(branchLog[i])) =>
                    InSeq(Resource(branchLog[i].id[1], branchLog[i].id[2], "uri"),
                          activeResources)
          /\ \A j \in 1..Len(activeResources) : listing[activeResources[j].project] >= 0
    /\ (pc = "threw" /\ stageLog = Through("discover:start")) =>
          error = "listProjects failed" /\ listing = << >>

C10_Witness ==
    /\ pc = "discovered"
    /\ projects = 2
    /\ listing[1] = -1
    /\ listing[2] = 2
    /\ Len(activeResources) = 2

\* a call of getBranchConnectionUri for the logged branch raised an error
ResolveRaised(e) == InSeq("error", e.calls)

\* the logged branch is in the sequence discovery returns
Returned(e) == \E j \in 1..Len(activeResources) :
                  /\ activeResources[j].project = e.id[1]
                  /\ activeResources[j].branch = e.id[2]

\* every branch the catalog listed has been through the branch-loop body
AllListedBranchesProcessed ==
    \A p \in 1..Len(listing) : \A b \in 1..listing[p] :
        \E i \in 1..Len(branchLog) : branchLog[i].id = << p, b >>

\* C11: in discoverActiveResources a branch for which resolving the connection
\* URI raises an error is dropped, it is not in the returned sequence, and the
\* remaining branches of the same project are still processed.
C11_Original ==
    pc = "discovered" =>
        /\ \A i \in 1..Len(branchLog) : ResolveRaised(branchLog[i]) => ~Returned(branchLog[i])
        /\ AllListedBranchesProcessed

\* the ids uploadBackup was called for, each at most once
UploadedOnce ==
    \A i, j \in 1..Len(uploadAttempts) :
        uploadAttempts[i].res = uploadAttempts[j].res => i = j

\* C12: there are no automatic retries in a run: for each branch the
\* connection-resolution operation is invoked at most once, for each resource
\* the dump utility is invoked at most once, and for each artifact the upload
\* is attempted at most once, whatever errors occur.
C12_Original ==
    /\ \A i \in 1..Len(branchLog) : Len(branchLog[i].calls) <= 1
    /\ \A i \in 1..Len(backupResults) : backupResults[i].dumps <= 1
    /\ UploadedOnce

\* an error raised by a stage before backup
PreBackupError == error \in {"Google Drive connection test failed", "listProjects failed"}

\* C13: an error in a stage before backup aborts the whole run: when the Drive
\* connection test fails or project enumeration fails, runBackupProcess raises
\* the error to main (exit code 1), the run stops in the stage that failed, no
\* dump subprocess is started and no file is uploaded.
C13_PreBackupErrorAborts ==
    PreBackupError =>
        /\ pc \in {"threw", "main_catch", "exited"}
        /\ pc = "exited" => exitCode = 1
        /\ stageLog = IF error = "listProjects failed"
                      THEN Through("discover:start") ELSE Through("verify:start")
        /\ invoked \subseteq VerifyProbes
        /\ ~dirReady
        /\ backupResults = << >>
        /\ uploadAttempts = << >>
        /\ activeResources = << >>

C13_Witness ==
    /\ pc = "exited"
    /\ exitCode = 1
    /\ error = "listProjects failed"
    /\ invoked = VerifyProbes

\* no catalog call of the discovery failed
NoCatalogFailure ==
    /\ \A p \in 1..Len(listing) : listing[p] >= 0
    /\ \A i \in 1..Len(branchLog) : ~ResolveRaised(branchLog[i])

\* id a comes before id b in project-then-branch enumeration order
Before(a, b) == a[1] < b[1] \/ (a[1] = b[1] /\ a[2] < b[2])

\* the ids of the logged branches that passed the activity filter, in log order
ActiveIds ==
    LET passed == SelectSeq(branchLog, LAMBDA e : e.active)
    IN  [ i \in 1..Len(passed) |-> passed[i].id ]

ReturnedIds ==
    [ j \in 1..Len(activeResources) |->
          << activeResources[j].project, activeResources[j].branch >> ]

\* C14: when no catalog call fails, discoverActiveResources returns exactly one
\* ActiveResource for each branch that passes the activity filter and none for
\* any other branch, in project enumeration order and, within a project, in
\* branch enumeration order; every listed branch was examined exactly once.
C14_ExactlyTheActiveBranches ==
    (pc = "discovered" /\ NoCatalogFailure) =>
        /\ ReturnedIds = ActiveIds
        /\ \A i, j \in 1..Len(activeResources) :
              i < j => Before(ReturnedIds[i], ReturnedIds[j])
        /\ \A i \in 1..Len(activeResources) : activeResources[i].connection_uri = "uri"
        /\ AllListedBranchesProcessed
        /\ \A i, j \in 1..Len(branchLog) : i < j => Before(branchLog[i].id, branchLog[j].id)
        /\ \A i \in 1..Len(branchLog) : branchLog[i].id[2] <= listing[branchLog[i].id[1]]

C14_Witness ==
    /\ pc = "discovered"
    /\ NoCatalogFailure
    /\ listing = << 2, 0 >>
    /\ Len(activeResources) = 1
    /\ ~branchLog[1].active
    /\ branchLog[2].active

\* the createBackup call of SpecBackup has returned
Created == pc = "create_done"

\* C15: no dump subprocess is started for a resource whose connection_uri is
\* empty or missing: createBackup answers at once with the failure artifact
\* 'No connection URI provided', starts no pg_dump and writes no file; every
\* call that starts pg_dump has a non-empty connection_uri.
C15_NoDumpWithoutUri ==
    Created =>
        /\ cb.resource.connection_uri = "" =>
              /\ ~cb.result.success
              /\ cb.result.error = "No connection URI provided"
              /\ cb.result.dumps = 0
              /\ cb.result.filePath = ""
              /\ cb.files = {}
        /\ cb.result.dumps > 0 => cb.resource.connection_uri # ""

C15_Witness ==
    /\ Created
    /\ cb.resource.connection_uri = ""
    /\ cb.o = OutcomeOk
    /\ ~cb.result.success

\* the dump and the post-processing of the build produced the reported file
FileProduced ==
    /\ cb.o.spawn = "exit"
    /\ cb.o.code = 0
    /\ cb.o.sqlStat
    /\ Compresses(cb.build) => cb.o.zip /\ cb.o.zipStat

\* C16: every BackupArtifact returned with success = true has a filePath, and
\* the file at that path exists in the staging directory when the artifact is
\* created; success = true is never returned when the dump or the
\* post-processing did not produce that file (both builds).
C16_SuccessHasExistingFile ==
    (Created /\ cb.result.success) =>
        /\ cb.result.filePath # ""
        /\ cb.result.filePath \in cb.files
        /\ cb.result.filePath = IF Compresses(cb.build) THEN ZipPath(cb.build, cb.resource)
                                ELSE DumpPath(cb.build, cb.resource)
        /\ FileProduced

C16_Witness ==
    /\ Created
    /\ cb.result.success
    /\ cb.build = "zip"
    /\ cb.result.filePath = "p1_b1.zip"
    /\ cb.files = {"p1_b1.sql", "p1_b1.zip"}

\* pg_dump was started and closed with an exit code
DumpClosed == Created /\ cb.result.dumps = 1 /\ cb.o.spawn = "exit"

\* C17: createBackup treats a non-zero exit code of pg_dump as failure: when
\* the subprocess closes with a code other than 0 the artifact has success =
\* false and its error is 'pg_dump exited with code <code>. stderr: <stderr>'
\* with the captured text unchanged; success = true needs exit code 0.
C17_NonZeroExitIsFailure ==
    /\ (DumpClosed /\ cb.o.code # 0) =>
          /\ ~cb.result.success
          /\ cb.result.filePath = ""
          /\ cb.result.error = "pg_dump exited with code " \o ToString(cb.o.code)
                                   \o ". stderr: " \o cb.o.stderr
    /\ (Created /\ cb.result.success) => DumpClosed /\ cb.o.code = 0

C17_Witness ==
    /\ DumpClosed
    /\ cb.o.code = 2
    /\ cb.o.sqlStat
    /\ cb.result.error = "pg_dump exited with code 2. stderr: connection refused"

\* the folders of the store that a resolution would find
Found == Matching(uploader, remote.parentFolderId, remote.folders)

\* the ids the calls that returned answered
ReturnedFolderIds == { remote.returned[i] : i \in 1..Len(remote.returned) } \ {""}

\* at most one folder of the name existed before the first call
AtMostOneBefore ==
    Cardinality(Matching(uploader, remote.parentFolderId, remote.before)) <= 1

StrictlyOlder(f) == ~sweep.days.nan /\ f.t < Now - HoursPerDay * sweep.days.n

\* the pass looks at the file at all: locally only at backup extensions
Eligible(f) == sweep.kind = "local" => f.ext \in BackupExtensions

\* the positions of the files the pass has to delete
Due == { i \in 1..Len(sweep.files) :
            Eligible(sweep.files[i]) /\ StrictlyOlder(sweep.files[i]) }

\* C19: both cleanup passes compare strictly at the retention boundary: no
\* file whose time is at or after now - retentionDays is ever deleted (a file
\* exactly on the boundary is retained), locally no file without a backup
\* extension is deleted, and a pass in which no file operation fails and
\* whose listing came in one page deletes every file with a strictly older
\* time.
C19_StrictRetentionBoundary ==
    /\ sweep.deleted \subseteq Due
    /\ (sweep.ended # "" /\ ~sweep.failed /\ ~sweep.nextPageToken) => sweep.deleted = Due

C19_Witness ==
    /\ sweep.ended = "returned"
    /\ ~sweep.failed
    /\ sweep.kind = "local"
    /\ sweep.days = Days(1)
    /\ sweep.files = << [ext |-> "zip", t |-> Now - HoursPerDay],
                        [ext |-> "zip", t |-> Now - HoursPerDay - 1] >>
    /\ sweep.deleted = {2}

\* the positions a delete was attempted for
Attempted == { sweep.attempted[i] : i \in 1..Len(sweep.attempted) }

\* the positions of the files the remote pass matched
Matched == { sweep.old[i] : i \in 1..Len(sweep.old) }

\* C20: in the remote cleanup a failure to delete one matching file does not
\* abort the pass: once the pass has ended, a delete was attempted for every
\* matching file, in the service-account variant and in the OAuth variant.
C20_Original ==
    (sweep.kind \in {"sa", "oauth"} /\ sweep.listed /\ sweep.ended # "") =>
        Attempted = Matched

ResultIds == [ i \in 1..Len(backupResults) |-> backupResults[i].res ]

\* every call of op with a position before i has settled and left its outcome
\* in done, and no call at position i or later has
SettledBefore(op, i, done) ==
    /\ Len(done) = i - 1
    /\ \A j \in 1..(i - 1) : Call(op, j) \notin inflight

\* C21: resources are backed up in exactly the order discovery returned them,
\* and the successful artifacts are uploaded in that same relative order: for
\* resources i < j the backup of i has finished before that of j starts, and
\* the upload of i's artifact comes before the upload of j's.
C21_SequentialInDiscoveryOrder ==
    /\ IsPrefix(ResultIds, ReturnedIds)
    /\ IsPrefix(AttemptIds, SuccessIds)
    /\ \A c \in inflight :
          /\ c[1] = "createBackup" => SettledBefore("createBackup", c[2], backupResults)
          /\ c[1] = "uploadBackup" => SettledBefore("uploadBackup", c[2], uploadAttempts)

\* the second of two artifacts is being uploaded, the first resource of three
\* having produced none
C21_Witness ==
    /\ Len(backupResults) = 3
    /\ ~backupResults[1].success
    /\ backupResults[2].success /\ backupResults[3].success
    /\ inflight = { Call("uploadBackup", 2) }
    /\ AttemptIds = << backupResults[2].res >>

\* C22: the run executes nothing in parallel: at most one awaited operation is
\* in flight at any instant, a backup or an upload is in flight only while its
\* own loop waits for it (so none is during a catalog call or a remote
\* delete), and no upload starts before every backup has finished.
C22_OneOperationInFlight ==
    /\ Cardinality(inflight) <= 1
    /\ \A c \in inflight :
          /\ c[1] = "createBackup" => pc = "backup_wait" /\ c[2] = rIdx
          /\ c[1] = "uploadBackup" =>
                /\ pc = "upload_wait" /\ c[2] = uIdx
                /\ Len(backupResults) = Len(activeResources)
    /\ pc \notin {"backup_wait", "upload_wait"} => inflight = {}

\* the first upload is in flight after three backups were made one by one
C22_Witness ==
    /\ inflight = { Call("uploadBackup", 1) }
    /\ Len(backupResults) = 3
    /\ uploadAttempts = << >>

\* the two inputs differ in what the file name is meant to tell apart
DifferentInputs(x, y) ==
    \/ x.projectName # y.projectName
    \/ x.branchName # y.branchName
    \/ x.now.sec # y.now.sec

\* C23: file name generation is injective: two inputs that differ in project
\* name, in branch name or in the second of the timestamp never get the same
\* file name, the output format being the same.
C23_Original ==
    \A i, j \in 1..Len(named) :
        (named[i].customFormat = named[j].customFormat /\ DifferentInputs(named[i], named[j]))
            => named[i].fileName # named[j].fileName

FileNameChars == NameAllowed \cup {"."}

IsTimestamp(str) ==
    /\ Len(str) = 19
    /\ \A i \in 1..19 :
          IF i \in {5, 8, 14, 17} THEN str[i] = "-"
          ELSE IF i = 11 THEN str[i] = "_"
          ELSE str[i] \in Digits

\* str is project, "_", branch, "_", a timestamp, ".", ext, where project and
\* branch stand for names of the lengths p and b given
HasShape(str, p, b, ext) ==
    /\ Len(str) = p + 1 + b + 1 + 19 + 1 + Len(ext)
    /\ \A i \in 1..p : str[i] \in NameAllowed
    /\ str[p + 1] = "_"
    /\ \A i \in 1..b : str[p + 1 + i] \in NameAllowed
    /\ str[p + b + 2] = "_"
    /\ IsTimestamp(SubSeq(str, p + b + 3, p + b + 21))
    /\ str[p + b + 22] = "."
    /\ SubSeq(str, p + b + 23, Len(str)) = ext

\* a character of the name that the class keeps is kept, at its place
KeptInPlace(name, str, offset) ==
    \A i \in 1..Len(name) : name[i] \in NameAllowed => str[offset + i] = name[i]

\* C24: whatever characters the project and branch names hold, the generated
\* file name holds only A-Z, a-z, 0-9, '_', '-' and '.', and has the shape
\* {sanitized-project}_{sanitized-branch}_{timestamp}.{ext}.
C24_SafeCharactersAndShape ==
    \A k \in 1..Len(named) :
        LET x == named[k]
            p == Len(x.projectName)
        IN  /\ \A i \in 1..Len(x.fileName) : x.fileName[i] \in FileNameChars
            /\ HasShape(x.fileName, p, Len(x.branchName),
                        IF x.customFormat THEN << "d", "u", "m", "p" >>
                        ELSE << "s", "q", "l" >>)
            /\ KeptInPlace(x.projectName, x.fileName, 0)
            /\ KeptInPlace(x.branchName, x.fileName, p + 1)

\* a name was generated for a project and a branch whose names hold a
\* character outside the safe set
C24_Witness ==
    \E k \in 1..Len(named) :
        /\ \E i \in 1..Len(named[k].projectName) : named[k].projectName[i] \notin NameAllowed
        /\ \E i \in 1..Len(named[k].branchName) : named[k].branchName[i] \notin NameAllowed
        /\ named[k].now.ms # 0

\* the upload stage of the run was completed
UploadCompleted == InSeq("upload:end", stageLog)

CleanupPerformed ==
    /\ InSeq("cleanup:start", stageLog)
    /\ "backup.cleanupOldBackups" \in invoked
    /\ "drive.cleanupOldBackups" \in invoked

\* C25: the cleanup stage is enabled by default: when CLEANUP_OLD_BACKUPS is
\* not provided, a run that completes the upload performs the local and the
\* remote cleanup; the stage is skipped only when the flag is explicitly false.
C25_Original ==
    (pc = "returned" /\ UploadCompleted /\ getInput(env, "CLEANUP_OLD_BACKUPS") # "false")
        => CleanupPerformed

\* the files of this run's successful backups: the artifact and the dump it
\* was compressed from
ProducedFiles ==
    UNION { { backupResults[i].filePath,
              DumpPath("zip", [project |-> backupResults[i].res[1],
                               branch |-> backupResults[i].res[2]]) } :
            i \in { k \in 1..Len(backupResults) : backupResults[k].success } }

\* C26: local backup files are removed after upload: at the successful end of
\* a run no backup file produced in the run, the uploaded artifact or the .sql
\* file it was compressed from, is left in the staging directory.
C26_Original ==
    (pc = "returned" /\ UploadCompleted) => ProducedFiles \cap staging = {}

UploadStarted == InSeq("upload:start", stageLog)

SummaryReached == pc = "returned" /\ Last(stageLog) = "summarize:end"

\* C27 as stated: a run with at least one successful backup reaches the
\* summarize stage whatever happens in the upload stage: the failure of any
\* subset of the uploads, of all of them, or of the resolution of the
\* destination folder is counted as failed uploads and never ends the run as
\* fatal.
C27_Original == (RunEnded /\ UploadStarted) => SummaryReached

\* C27 as amended: the failure of any subset of the uploads, all of them
\* included, is counted and never ends the run: no error is raised between the
\* first upload and the end of the upload stage, and a run that returns after
\* the upload stage has reached the summary with every artifact attempted. The
\* one error the upload stage raises is the failure to resolve the destination
\* folder, before any upload is attempted; it ends the run as fatal.
C27_UploadFailuresNeverFatal ==
    /\ pc \in {"upload_loop", "upload_wait", "uploaded"} => error = "" /\ backupFolderId # ""
    /\ (error # "" /\ UploadStarted /\ ~UploadCompleted) =>
          /\ error = "initialize failed"
          /\ uploadAttempts = << >>
          /\ backupFolderId = ""
          /\ pc = "exited" => exitCode = 1
    /\ (pc = "returned" /\ UploadStarted) =>
          /\ SummaryReached
          /\ AttemptIds = SuccessIds
          /\ ReportedFailed = FailedAttempts

\* every upload of a run with two artifacts failed, and the run has reached
\* the summary
C27_Witness ==
    /\ SummaryReached
    /\ Len(uploadAttempts) = 2
    /\ FailedAttempts = 2

\* C28: cleanup is best-effort: an error raised while listing, stat-ing or
\* deleting files, in the local pass and in the remote pass of either uploader
\* variant, is logged and swallowed: every pass that ends returns to its
\* caller and none raises.
C28_Original == sweep.ended # "" => sweep.ended = "returned"

\* createBackup has handed an argument list and an environment to spawn
Spawned == Created /\ cb.spawned # << >>

HasFlag(args, flag) == \E i \in 1..Len(args) : args[i].flag = flag

\* C29: whatever the connection URI, the argument list handed to pg_dump never
\* holds the password: it is passed in the PGPASSWORD variable of the
\* subprocess's environment only (with --no-password among the arguments), and
\* PGSSLMODE is always 'require', whatever the process's own environment sets.
C29_PasswordOnlyInEnvironment ==
    Spawned =>
        LET password == parse(cb.resource.connection_uri).password
            args == cb.spawned.args
        IN  /\ password # "" => \A i \in 1..Len(args) : args[i].value # password
            /\ ~HasFlag(args, "--password")
            /\ HasFlag(args, "--no-password")
            /\ cb.spawned.env.PGPASSWORD = password
            /\ cb.spawned.env.PGSSLMODE = "require"
            /\ \A k \in DOMAIN cb.processEnv \ {"PGPASSWORD", "PGSSLMODE"} :
                  cb.spawned.env[k] = cb.processEnv[k]

\* pg_dump was started for a URI with a password by a process whose own
\* environment sets another SSL mode and another password
C29_Witness ==
    /\ Spawned
    /\ parse(cb.resource.connection_uri).password = "secret"
    /\ "PGSSLMODE" \in DOMAIN cb.processEnv
    /\ cb.processEnv.PGSSLMODE = "disable"
    /\ cb.spawned.env.PGPASSWORD = "secret"

\* pg_dump closed with code 0 and left the file it was told to write
DumpSucceeded == Spawned /\ cb.o.spawn = "exit" /\ cb.o.code = 0 /\ cb.o.sqlStat

\* C30: in createBackup of backup-service.ts the compression step runs if and
\* only if the dump was produced in plain-text format; when it runs, the
\* artifact's filePath is the compressed archive, a file other than the dump
\* that sqlFilePath names; a custom-format dump is never fed to compression.
C30_Original ==
    (Created /\ Compresses(cb.build)) =>
        /\ cb.compressed <=> (DumpSucceeded /\ ~CustomFormat(cb.build))
        /\ (cb.compressed /\ cb.result.success) =>
              cb.result.filePath # DumpPath(cb.build, cb.resource)

AttemptStates == {"PENDING", "DUMPING", "DUMPED", "COMPRESSING", "ARCHIVED", "FAILED"}

\* PENDING -> DUMPING -> DUMPED -> COMPRESSING -> ARCHIVED, or to FAILED from
\* a state that is not an end state
AttemptTransitions ==
    { << "PENDING", "DUMPING" >>, << "DUMPING", "DUMPED" >>,
      << "DUMPED", "COMPRESSING" >>, << "COMPRESSING", "ARCHIVED" >> }
    \cup { << st, "FAILED" >> : st \in {"PENDING", "DUMPING", "DUMPED", "COMPRESSING"} }

\* C31: a resource's backup attempt follows only the transitions PENDING ->
\* DUMPING -> DUMPED -> COMPRESSING -> ARCHIVED or a transition to FAILED; it
\* ends in ARCHIVED with an artifact of success = true or in FAILED with one of
\* success = false, the artifact createBackup returns; it never leaves
\* ARCHIVED or FAILED; and the loop pushes the artifact and moves on to the
\* next resource from either end state.
C31_AttemptStateMachine ==
    /\ [](pc \in AttemptStates)
    /\ [][pc' # pc => << pc, pc' >> \in AttemptTransitions]_vars
    /\ [](pc = "ARCHIVED" => cb.result.success /\ cb.compressed)
    /\ [](pc = "FAILED" => cb.result # << >> /\ ~cb.result.success)
    /\ [](pc \in {"ARCHIVED", "FAILED"} =>
             /\ cb.result = createBackupOf(cb.build, cb.resource, cb.o)
             /\ cb.compressed = compressCalled(cb.build, cb.resource, cb.o)
             /\ cb.spawned = spawnedWith(cb.build, cb.resource, cb.processEnv))
    /\ [](rIdx > Len(activeResources) =>
             /\ pc \in {"ARCHIVED", "FAILED"}
             /\ backupResults = << cb.result >>)

\* an attempt failed while compressing, and the loop has moved on
C31_Witness ==
    /\ pc = "FAILED"
    /\ cb.compressed
    /\ cb.result.error = ZipError
    /\ rIdx = 2

ConnEnded == pc = "conn_done"

\* the database the claim names: the preferred one if the branch has it, else
\* the first one returned
ClaimedDatabase ==
    IF dbExists(conn.databases, conn.databaseName) THEN conn.databaseName
    ELSE conn.databases[1]

\* C32: getBranchConnectionUri requests the URI with the first role returned
\* for the branch, and with the preferred database name when that name is
\* among the branch's databases, otherwise with the first database returned;
\* with zero roles it fails without requesting any URI.
C32_Original ==
    ConnEnded =>
        /\ conn.requested # << >> =>
              /\ conn.roles # << >>
              /\ conn.requested.role_name = conn.roles[1]
              /\ conn.databases # << >>
              /\ conn.requested.database_name = ClaimedDatabase
        /\ conn.roles = << >> => conn.requested = << >> /\ conn.ended = "threw"

\* ------------------------------------------------------------------ C33
RunAttempts == { uploadAttempts[i] : i \in 1..Len(uploadAttempts) }

\* C33: within one run the destination folder is resolved by at most one
\* initialize() call; once this.backupFolderId is set it never changes; every
\* uploadBackup call of the run names that folder id as the parent, every
\* file the run created lies in it, and the files.list query of the remote
\* cleanup names it too.
C33_FolderIdMemoized ==
    /\ [](/\ Len(drive.initialized) <= 1
          /\ backupFolderId # "" /\ drive.initialized # << >>
                => drive.initialized = << backupFolderId >>
          /\ \A a \in RunAttempts : a.parent = backupFolderId /\ a.parent # ""
          /\ \A f \in drive.files : f.parent = backupFolderId
          /\ drive.listed # "" => drive.listed = backupFolderId)
    /\ [][backupFolderId # "" => backupFolderId' = backupFolderId]_vars

\* a run that resolved the folder in uploadMultipleBackups, uploaded two
\* artifacts into it and has issued the files.list of the remote cleanup
C33_Witness ==
    /\ pc = "summarize"
    /\ Len(drive.initialized) = 1
    /\ Cardinality(drive.files) = 2
    /\ drive.listed = "folder2"

\* ------------------------------------------------------------------ C34
\* the remote pass listed, no call of it failed, and it has returned
CleanPassEnded ==
    /\ sweep.kind \in {"sa", "oauth"}
    /\ sweep.listed
    /\ ~sweep.failed
    /\ sweep.ended = "returned"

\* C34: a remote cleanup pass in which no delete call fails removes every
\* file of the folder whose creation time is older than now - days, however
\* many files the folder holds: afterwards no such file remains.
C34_Original == CleanPassEnded => Due \subseteq sweep.deleted

\* ------------------------------------------------------------------ C35
\* the artifacts of the run with success = true that file f can stem from:
\* the one handed to the uploadBackup call that created f
ArtifactsOf(f) ==
    { i \in 1..Len(backupResults) :
        /\ backupResults[i].success
        /\ backupResults[i].res = uploadAttempts[f.id].res
        /\ backupResults[i].filePath = f.name }

\* C35: every file created in the remote store stems from exactly one
\* uploadBackup call of the run, which resolved, for exactly one artifact with
\* success = true; the file carries that artifact's file name and lies in the
\* resolved destination folder.  No uploadBackup call is made for an artifact
\* with success = false, and none while the folder id is unset.
C35_UploadsOnlySuccessfulArtifacts ==
    /\ \A a \in RunAttempts : a.success /\ a.parent # ""
    /\ \A f \in drive.files :
          /\ f.id \in 1..Len(uploadAttempts)
          /\ uploadAttempts[f.id].ok
          /\ uploadAttempts[f.id].name = f.name
          /\ Cardinality(ArtifactsOf(f)) = 1
          /\ f.parent = backupFolderId
          /\ f.parent # ""
    /\ \A f, g \in drive.files : f.id = g.id => f = g

\* the OAuth uploader went through a failed and two successful artifacts;
\* one upload failed, the other created a file
C35_Witness ==
    /\ pc = "uploaded"
    /\ uploader = "oauth"
    /\ Len(backupResults) = 3
    /\ \E i \in 1..3 : ~backupResults[i].success
    /\ Len(uploadAttempts) = 2
    /\ Cardinality(drive.files) = 1

\* ------------------------------------------------------------------ C36
\* C36: a false answer of checkPgDumpAvailability does not abort the run: the
\* step that receives it ends the verification without error and starts the
\* discovery; such a run reaches the backup stage whenever discovery returned
\* a resource, and once the backups are judged it has raised 'No successful
\* backups created' exactly when every createBackup failed.
C36_MissingPgDumpNotFatal ==
    /\ [][(pgDumpAvailable = "" /\ pgDumpAvailable' = "false")
             => /\ pc' = "discover_call"
                /\ error' = ""
                /\ stageLog' = Through("discover:start")]_vars
    /\ [](pgDumpAvailable = "false" =>
            /\ InSeq("verify:end", stageLog)
            /\ InSeq("discover:start", stageLog)
            /\ error # "Google Drive connection test failed"
            /\ (RunEnded /\ Len(activeResources) > 0) => InSeq("backup:start", stageLog)
            /\ BackupsJudged =>
                  (error = "No successful backups created"
                      <=> Successes(backupResults) = << >>))

\* the probe answered false, discovery found two resources, both dumps
\* failed, and the run has ended with exit code 1 by the zero-successful rule
C36_Witness ==
    /\ pgDumpAvailable = "false"
    /\ pc = "exited"
    /\ exitCode = 1
    /\ error = "No successful backups created"
    /\ Len(backupResults) = 2
    /\ InSeq("backup:start", stageLog)

\* ------------------------------------------------------------------ C37
\* the positions of the files this run produced: written (local) or created
\* (remote) since the run began
OfThisRun == { i \in 1..Len(sweep.files) : sweep.files[i].t >= sweep.started }

\* the retention window is a number of days, at least 1
WindowOfDays == ~sweep.days.nan /\ sweep.days.n >= 1

\* C37 as stated: for every retention window of at least 1 day no cleanup
\* pass, local or remote, deletes a file produced by the same run.
C37_Original == WindowOfDays => sweep.deleted \cap OfThisRun = {}

\* the run began no earlier than now - retentionDays of the pass
BeganWithinWindow == sweep.started >= Now - HoursPerDay * sweep.days.n

\* C37 as amended: for every retention window of at least 1 day, a cleanup
\* pass, local or remote, of a run that began no earlier than the retention
\* window before the pass deletes no file produced by that run.
C37_NoOwnFileDeletedWithinWindow ==
    (WindowOfDays /\ BeganWithinWindow) => sweep.deleted \cap OfThisRun = {}

\* a remote pass of a run that has lasted exactly one day, window one day: the
\* file the run created at its start is kept, the file an hour older is gone
C37_Witness ==
    /\ sweep.ended = "returned"
    /\ sweep.kind = "sa"
    /\ sweep.days = Days(1)
    /\ sweep.started = Now - HoursPerDay
    /\ sweep.files = << [ext |-> "zip", t |-> Now - HoursPerDay],
                        [ext |-> "zip", t |-> Now - HoursPerDay - 1] >>
    /\ sweep.deleted = {2}

\* ------------------------------------------------------------------ C38
\* runBackupProcess has returned (done) or raised to main (fatal)
RunSettled == pc \in {"returned", "main_catch"}

\* the number of createBackup results for resource i of the discovery
AttemptsFor(i) ==
    Cardinality({ j \in 1..Len(backupResults) :
                    backupResults[j].res = << activeResources[i].project,
                                              activeResources[i].branch >> })

AttemptedExactlyOnce ==
    /\ Len(backupResults) = Len(activeResources)
    /\ \A i \in 1..Len(activeResources) : AttemptsFor(i) = 1

\* C38 as stated, its safety part: when the run has ended and was not aborted
\* before the backup stage, every discovered resource has been attempted
\* exactly once.
C38_Original ==
    (RunSettled /\ InSeq("backup:start", stageLog)) => AttemptedExactlyOnce

\* C38 as amended: when every awaited call settles, every run of
\* runBackupProcess ends, returned or raised to main, and then the process
\* exits; a run that ended after its backup service had created the staging
\* directory has attempted every discovered resource exactly once, and a run
\* that entered the backup stage and could not create the directory has
\* attempted none.
C38_RunTerminates ==
    /\ (pc = "run") ~> RunSettled
    /\ RunSettled ~> (pc = "exited")
    /\ []((RunSettled /\ dirReady) => AttemptedExactlyOnce)
    /\ []((RunSettled /\ InSeq("backup:start", stageLog) /\ ~dirReady)
            => backupResults = << >> /\ error = "mkdir failed")

\* a run over three resources has returned after one attempt for each, the
\* second of which failed
C38_Witness ==
    /\ pc = "returned"
    /\ Len(activeResources) = 3
    /\ AttemptedExactlyOnce
    /\ ~backupResults[2].success
    /\ stageLog = FullRun(config.cleanupOldBackups)

====
